---- MODULE Spec2Model ----
(***************************************************************************)
(* Verification model of the interlytics cross-tabulation engine:          *)
(*   src/src/components/VariableSelector.tsx  (generateCrossTabs and the   *)
(*       per-path aggregators, applyFilters, createBannerStructure)        *)
(*   src/src/utils/statisticalTests.ts        (z-test, significance flags) *)
(*   src/project/src/utils/rankingProcessor.ts (ranking batteries)         *)
(*   src/project/src/utils/textProcessing.ts  (removeSharedPrefix)        *)
(*                                                                         *)
(* JavaScript strings are TLA+ strings; a cell of the dataset is the       *)
(* string String(cell) yields (processExcelFile stores '' for every falsy  *)
(* cell, so `cell || ''` is the identity on loaded data).                  *)
(***************************************************************************)
EXTENDS Integers, Sequences, FiniteSets, TLC

VARIABLES pc, data, config, results, threw, filteredData,
          absoluteData, baseValues, significanceFlags, zArgs, zResult,
          openEndResponses, settings, coding,
          sampleHeader, sampleValues, hostDates, analysis,
          detectedGroups, checkedBoxes,
          outputOptions, showOutputModal, analysisTimer, optionChanges,
          exported,
          cosineMatrix, hcClusters, merges,
          currentStep, showNamingModal, namingTimer, pendingFiles

\* the state of the cross-tabulation engine and of the statistical tests
engineVars == <<data, config, results, threw, filteredData,
                absoluteData, baseValues, significanceFlags, zArgs, zResult>>

\* the state of OpenEndCoder
coderVars == <<openEndResponses, settings, coding>>

\* the state of analyzeQuestionType
typeVars == <<sampleHeader, sampleValues, hostDates, analysis>>

\* the state of MultiSelectDefinition besides config.multiSelectGroups
groupVars == <<detectedGroups, checkedBoxes>>

\* the state of the components around the engine
\* the state of App that OutputOptionsModal shows and changes
optionVars == <<outputOptions, showOutputModal, analysisTimer, optionChanges>>

\* the outcome of exportToExcelWithIndex
exportVars == <<exported>>

\* the agglomerative loop of hierarchicalClustering: the pairwise cosine similarities of the responses, the loop's clusters, the merges done
clusterVars == <<cosineMatrix, hcClusters, merges>>

\* the wizard state of App: the step shown, the naming dialog, the pending
\* timer of handleTableNamesConfirmed with the state its callback closes over,
\* and the files handleFileSelect is still processing
appVars == <<currentStep, showNamingModal, namingTimer, pendingFiles>>

toolVars == <<coderVars, typeVars, groupVars, optionVars, exportVars, clusterVars, appVars>>

vars == <<pc, engineVars, toolVars>>

(***************************************************************************)
(* Strings                                                                 *)
(***************************************************************************)

\* The printable ASCII characters in code-unit order: codes 32 .. 95 and
\* 97 .. 126 (code 96, the grave accent, cannot be written in a string here).
Ascii == " !\"#$%&'()*+,-./0123456789:;<=>?@ABCDEFGHIJKLMNOPQRSTUVWXYZ[\\]^_abcdefghijklmnopqrstuvwxyz{|}~"

\* the letters toLowerCase maps, and their images at the same positions
Letters == [upper |-> "ABCDEFGHIJKLMNOPQRSTUVWXYZ", lower |-> "abcdefghijklmnopqrstuvwxyz"]

Digits == "0123456789"

\* s[i] as a one-character string; "" outside the string (undefined)
CharAt(s, i) == IF i >= 1 /\ i <= Len(s) THEN SubSeq(s, i, i) ELSE ""

\* s.substring(i - 1, j) with 1-based inclusive bounds, clipped to the string
Slice(s, i, j) ==
  LET lo == IF i < 1 THEN 1 ELSE i
      hi == IF j > Len(s) THEN Len(s) ELSE j
  IN IF lo > hi THEN "" ELSE SubSeq(s, lo, hi)

\* Position of the one-character string c in str, 0 when absent.
IndexOfChar(c, str) ==
  CHOOSE i \in 0..Len(str) :
    IF i = 0 THEN \A j \in 1..Len(str) : CharAt(str, j) # c
    ELSE CharAt(str, i) = c /\ \A j \in 1..(i - 1) : CharAt(str, j) # c

\* UTF-16 code unit of a character, as String.prototype.sort compares them.
CharCode(c) ==
  IndexOfChar(c, Ascii) + (IF IndexOfChar(c, Ascii) <= 64 THEN 31 ELSE 32)

IsDigit(c) == IndexOfChar(c, Digits) > 0

DigitVal(c) == IndexOfChar(c, Digits) - 1

IsSpace(c) == c = " "

RECURSIVE toLowerCase(_)
toLowerCase(s) ==
  IF Len(s) = 0 THEN ""
  ELSE (IF IndexOfChar(Head(s), Letters.upper) > 0
        THEN CharAt(Letters.lower, IndexOfChar(Head(s), Letters.upper))
        ELSE Head(s))
       \o toLowerCase(Tail(s))

RECURSIVE trimStart(_)
trimStart(s) ==
  IF Len(s) > 0 /\ IsSpace(Head(s)) THEN trimStart(Tail(s)) ELSE s

RECURSIVE trimEnd(_)
trimEnd(s) ==
  IF Len(s) > 0 /\ IsSpace(CharAt(s, Len(s)))
  THEN trimEnd(Slice(s, 1, Len(s) - 1)) ELSE s

trim(s) == trimEnd(trimStart(s))

\* Does `sub` occur in s starting at position i ?
MatchesAt(s, i, sub) ==
  /\ i >= 1
  /\ i + Len(sub) - 1 <= Len(s)
  /\ Slice(s, i, i + Len(sub) - 1) = sub

\* String.prototype.includes
includes(s, sub) == \E i \in 1..(Len(s) + 1) : MatchesAt(s, i, sub)

\* a < b in the order of Array.prototype.sort() without comparator
RECURSIVE StrLess(_, _)
StrLess(a, b) ==
  IF Len(a) = 0 THEN Len(b) > 0
  ELSE IF Len(b) = 0 THEN FALSE
  ELSE IF Head(a) = Head(b) THEN StrLess(Tail(a), Tail(b))
  ELSE CharCode(Head(a)) < CharCode(Head(b))

\* the array with the elements f[1], ..., f[n], every element computed once
Array(f) == f \o <<>>

\* [...new Set(list)].sort() : the distinct strings of a set, ascending.
SortStrings(S) ==
  Array([k \in 1..Cardinality(S) |->
           CHOOSE x \in S : Cardinality({ y \in S : StrLess(y, x) }) = k - 1])

RECURSIVE DigitsToNat(_, _)
DigitsToNat(s, acc) ==
  IF Len(s) = 0 THEN acc
  ELSE DigitsToNat(Tail(s), 10 * acc + DigitVal(Head(s)))

AllDigits(s) == Len(s) > 0 /\ \A i \in 1..Len(s) : IsDigit(CharAt(s, i))

NaN == [nan |-> TRUE, v |-> 0]

Num(n) == [nan |-> FALSE, v |-> n]

\* Number(s) for strings made of sign, decimal digits, blanks and letters:
\* blank is 0, an optionally signed run of digits is its value, anything
\* else is NaN.  (Fractions, exponents and 0x/0b/0o literals are outside the
\* input alphabet of the model.)
Number(s) ==
  LET t == trim(s) IN
  IF t = "" THEN Num(0)
  ELSE IF AllDigits(t) THEN Num(DigitsToNat(t, 0))
  ELSE IF Head(t) = "-" /\ AllDigits(Tail(t)) THEN Num(0 - DigitsToNat(Tail(t), 0))
  ELSE IF Head(t) = "+" /\ AllDigits(Tail(t)) THEN Num(DigitsToNat(Tail(t), 0))
  ELSE NaN

isNaN(n) == n.nan

RECURSIVE NatToStr(_)
NatToStr(n) ==
  IF n < 10 THEN CharAt(Digits, n + 1)
  ELSE NatToStr(n \div 10) \o CharAt(Digits, (n % 10) + 1)

\* `${n}` for an integer n
IntToStr(n) == IF n < 0 THEN "-" \o NatToStr(0 - n) ELSE NatToStr(n)

RECURSIVE LeadingDigits(_)
LeadingDigits(s) ==
  IF Len(s) > 0 /\ IsDigit(Head(s)) THEN Head(s) \o LeadingDigits(Tail(s)) ELSE ""

\* parseInt(s): leading blanks, optional sign, the longest run of digits.
parseInt(s) ==
  LET ds == LeadingDigits(IF CharAt(trimStart(s), 1) \in {"-", "+"}
                          THEN Tail(trimStart(s)) ELSE trimStart(s))
  IN IF ds = "" THEN NaN
     ELSE Num(IF CharAt(trimStart(s), 1) = "-"
              THEN 0 - DigitsToNat(ds, 0) ELSE DigitsToNat(ds, 0))

FirstIndexOf(s, sub) ==
  CHOOSE k \in 1..(Len(s) + 1) :
    MatchesAt(s, k, sub) /\ \A j \in 1..(k - 1) : ~MatchesAt(s, j, sub)

\* s.replace(pat, rep) with a string pattern: the first occurrence only.
replaceFirst(s, pat, rep) ==
  IF ~includes(s, pat) THEN s
  ELSE Slice(s, 1, FirstIndexOf(s, pat) - 1) \o rep
       \o Slice(s, FirstIndexOf(s, pat) + Len(pat), Len(s))

(***************************************************************************)
(* Sequences and maps                                                      *)
(***************************************************************************)

Range(seq) == {seq[i] : i \in 1..Len(seq)}

\* Array.prototype.indexOf, 1-based; 0 stands for -1.
indexOf(seq, x) ==
  IF \E i \in 1..Len(seq) : seq[i] = x
  THEN CHOOSE i \in 1..Len(seq) : seq[i] = x /\ \A j \in 1..(i - 1) : seq[j] # x
  ELSE 0

RECURSIVE Flatten(_)
Flatten(seqs) ==
  IF seqs = <<>> THEN <<>> ELSE Head(seqs) \o Flatten(Tail(seqs))

RECURSIVE SumSeq(_)
SumSeq(seq) == IF seq = <<>> THEN 0 ELSE Head(seq) + SumSeq(Tail(seq))

EmptyMap == [k \in {} |-> ""]

\* map[key] || dflt for a Record<string, string>
GetOr(map, key, dflt) ==
  IF key \in DOMAIN map /\ map[key] # "" THEN map[key] ELSE dflt

(***************************************************************************)
(* applyFilters                                                            *)
(***************************************************************************)

\* filter.secondValue is optional
NoSecond == [present |-> FALSE, v |-> ""]

Second(s) == [present |-> TRUE, v |-> s]

\* One simple filter against one row: the callback of `every` in applyFilters.
FilterPasses(headers, row, filter) ==
  LET columnIndex == indexOf(headers, filter.column) IN
  IF columnIndex = 0 THEN TRUE
  ELSE
    LET cellValue   == toLowerCase(trim(row[columnIndex]))
        filterValue == toLowerCase(trim(filter.value))
        numValue    == Number(cellValue)
        numFilter   == Number(filterValue)
        \* Number(filter.secondValue || 0)
        numFilter4  == IF filter.secondValue.present /\ filter.secondValue.v # ""
                       THEN Number(filter.secondValue.v) ELSE Num(0)
    IN CASE filter.operator = "equals"       -> cellValue = filterValue
         [] filter.operator = "not_equals"   -> cellValue # filterValue
         [] filter.operator = "contains"     -> includes(cellValue, filterValue)
         [] filter.operator = "not_contains" -> ~includes(cellValue, filterValue)
         [] filter.operator = "greater_than" ->
              ~isNaN(numValue) /\ ~isNaN(numFilter) /\ numValue.v > numFilter.v
         [] filter.operator = "less_than"    ->
              ~isNaN(numValue) /\ ~isNaN(numFilter) /\ numValue.v < numFilter.v
         [] filter.operator = "in_range"     ->
              /\ ~isNaN(numValue) /\ ~isNaN(numFilter) /\ ~isNaN(numFilter4)
              /\ numValue.v >= numFilter.v /\ numValue.v <= numFilter4.v
         [] OTHER -> TRUE

RowPasses_some(headers, row, filters) ==
  \E id \in DOMAIN filters : FilterPasses(headers, row, filters[id])

\* Object.values(filters).every(...)
RowPasses(headers, row, filters) ==
  \A id \in DOMAIN filters : FilterPasses(headers, row, filters[id])

applyFilters(d, filters) ==
  IF DOMAIN filters = {} THEN d
  ELSE LET Keep(row) == RowPasses(d.headers, row, filters)
       IN [d EXCEPT !.rows = SelectSeq(d.rows, Keep)]

\* the dataset the caller holds after applyFilters(data, filters), had the
\* rows that fail been removed from data.rows itself
DataAfter_applyFilters_inPlace(d, filters) == applyFilters(d, filters)

\* the dataset the caller holds after applyFilters(data, filters): the rows
\* that pass are collected by data.rows.filter(...) into a new array, which
\* is returned in a new object { ...data, rows: filteredRows }
DataAfter_applyFilters(d, filters) == d

(***************************************************************************)
(* statisticalTests.ts                                                     *)
(*                                                                         *)
(* Floating-point results are kept as what the callers can observe of      *)
(* them.  zScore is its sign and its exact square (a fraction); pValue is  *)
(* the literal 1 of the early returns, NaN, or a computed value of which   *)
(* only `pValue < alpha` is kept.                                          *)
(***************************************************************************)

\* a/b > n/d for a, n >= 0 and b, d > 0, without forming the cross products
RECURSIVE RatGreater(_, _, _, _)
RatGreater(a, b, n, d) ==
  LET qa == a \div b
      qn == n \div d
      ra == a % b
      rn == n % d
  IN IF qa # qn THEN qa > qn
     ELSE IF ra = 0 THEN FALSE
     ELSE IF rn = 0 THEN TRUE
     ELSE RatGreater(d, rn, b, ra)

\* 2 * (1 - normalCDF(|z|)) decreases in |z| and crosses alpha = 0.05 at
\* |z| = 1.9599627..., that is z*z = 3.8414538...: with the coefficients of
\* normalCDF, pValue < 0.05 exactly when z*z exceeds this fraction.
ZCritSqNum == 3841454

ZCritSqDen == 1000000

PValueBelowAlpha(sqNum, sqDen) == RatGreater(sqNum, sqDen, ZCritSqNum, ZCritSqDen)

ZeroScore == [nan |-> FALSE, sgn |-> 0, sqNum |-> 0, sqDen |-> 1]

NaNScore == [nan |-> TRUE, sgn |-> 0, sqNum |-> 0, sqDen |-> 1]

LiteralOne == [nan |-> FALSE, one |-> TRUE, ltAlpha |-> FALSE]

NaNValue == [nan |-> TRUE, one |-> FALSE, ltAlpha |-> FALSE]

Computed(lt) == [nan |-> FALSE, one |-> FALSE, ltAlpha |-> lt]

NotSignificant ==
  [isSignificant |-> FALSE, pValue |-> LiteralOne, zScore |-> ZeroScore,
   comparisonType |-> "none"]

Sign(n) == IF n > 0 THEN 1 ELSE IF n < 0 THEN 0 - 1 ELSE 0

\* The computation after both early-return tests (lines 22-49 but 31-33).
zTestBody(count1, total1, count2, total2) ==
  LET cs  == count1 + count2
      ts  == total1 + total2
      \* p1 - p2 = diff / (total1 * total2)
      diff == count1 * total2 - count2 * total1
      \* pPooled * (1 - pPooled) * (1/total1 + 1/total2)
      \*    = cs * (ts - cs) / (ts * total1 * total2)
      radNum == cs * (ts - cs)
  IN IF radNum < 0
     THEN \* Math.sqrt of a negative number: se, zScore and pValue are NaN
          [isSignificant |-> FALSE, pValue |-> NaNValue, zScore |-> NaNScore,
           comparisonType |-> "none"]
     ELSE LET sqNum == diff * diff * ts
              sqDen == radNum * total1 * total2
              sig   == PValueBelowAlpha(sqNum, sqDen)
          IN [isSignificant  |-> sig,
              pValue         |-> Computed(sig),
              zScore         |-> [nan |-> FALSE, sgn |-> Sign(diff),
                                  sqNum |-> sqNum, sqDen |-> sqDen],
              comparisonType |-> IF sig THEN (IF diff > 0 THEN "higher" ELSE "lower")
                                 ELSE "none"]

\* se === 0: the radicand is 0 (total1, total2 > 0 here)
seIsZero(count1, total1, count2, total2) ==
  (count1 + count2) * ((total1 + total2) - (count1 + count2)) = 0

\* the z-test without its `se === 0` early return: (p1 - p2) / 0 is NaN or
\* an infinity
zTestForProportions_noSeGuard(count1, total1, count2, total2) ==
  IF total1 = 0 \/ total2 = 0 THEN NotSignificant
  ELSE IF seIsZero(count1, total1, count2, total2)
  THEN LET diff == count1 * total2 - count2 * total1 IN
       IF diff = 0
       THEN [isSignificant |-> FALSE, pValue |-> NaNValue, zScore |-> NaNScore,
             comparisonType |-> "none"]
       ELSE [isSignificant |-> TRUE, pValue |-> Computed(TRUE),
             zScore |-> [nan |-> FALSE, sgn |-> Sign(diff), sqNum |-> 1, sqDen |-> 0],
             comparisonType |-> IF diff > 0 THEN "higher" ELSE "lower"]
  ELSE zTestBody(count1, total1, count2, total2)

zTestForProportions(count1, total1, count2, total2) ==
  IF total1 = 0 \/ total2 = 0 THEN NotSignificant
  ELSE IF seIsZero(count1, total1, count2, total2) THEN NotSignificant
  ELSE zTestBody(count1, total1, count2, total2)

\* The flag strings.  The "lower" literal of statisticalTests.ts line 88 is
\* the three characters U+00E2 U+2020 U+201C (the bytes of U+2193 read as
\* Windows-1252), not the arrow U+2193 that the exporter and the legend use.
Star == "*"

DownArrow == "<U+2193>"

LowerFlagLiteral == "<U+00E2><U+2020><U+201C>"

FlagFor(row, bases, colIndex) ==
  IF colIndex = 1 THEN ""
  ELSE LET testResult == zTestForProportions(row[colIndex], bases[colIndex],
                                             row[1], bases[1])
       IN IF testResult.isSignificant
          THEN (IF testResult.comparisonType = "higher" THEN Star ELSE LowerFlagLiteral)
          ELSE ""

performSignificanceTests_noTotalColumn(absolute, bases) ==
  [rowIndex \in 1..Len(absolute) |->
     [colIndex \in 1..(Len(absolute[rowIndex]) - 1) |->
        FlagFor(absolute[rowIndex], bases, colIndex + 1)]]

performSignificanceTests(absolute, bases) ==
  [rowIndex \in 1..Len(absolute) |->
     [colIndex \in 1..Len(absolute[rowIndex]) |->
        FlagFor(absolute[rowIndex], bases, colIndex)]]

(***************************************************************************)
(* Cross-tabulation: shared pieces                                         *)
(***************************************************************************)

RECURSIVE join(_, _)
join(seq, sep) ==
  IF seq = <<>> THEN ""
  ELSE IF Len(seq) = 1 THEN seq[1]
  ELSE seq[1] \o sep \o join(Tail(seq), sep)

\* the record generateCrossTabs builds for one row: rowData[header] = row[index]
\* (the last column wins when a header repeats)
RowData(headers, row) ==
  [h \in Range(headers) |->
     row[CHOOSE i \in 1..Len(headers) :
           headers[i] = h /\ \A j \in (i + 1)..Len(headers) : headers[j] # h]]

\* String(row[col] || '').trim()
Cell_noTrim(row, col) == IF col \in DOMAIN row THEN row[col] ELSE ""

Cell(row, col) == IF col \in DOMAIN row THEN trim(row[col]) ELSE ""

\* val !== '' && val !== 'null' && val !== 'undefined'
NonBlank(val) == val # "" /\ val # "null" /\ val # "undefined"

\* [...new Set(dataMap.map(cell of col).filter(non-blank))].sort()
DistinctValues(dataMap, col) ==
  SortStrings({ v \in { Cell(dataMap[i], col) : i \in 1..Len(dataMap) } : NonBlank(v) })

\* Math.round((count / base) * 100) for count >= 0, base > 0: the nearest
\* integer, halves upwards.  (The double count/base*100 rounds to the same
\* integer as the exact quotient for every base below 40.)
RoundPct_floor(count, base) == (100 * count) \div base

RoundPct(count, base) == (200 * count + base) \div (2 * base)

\* base > 0 ? Math.round((count / base) * 100) : 0
Percentage(count, base) == IF base > 0 THEN RoundPct(count, base) ELSE 0

PctStr(n) == IntToStr(n) \o "%"

PctRow_totalBase(absRow, bases) ==
  Array([c \in 1..Len(absRow) |-> PctStr(Percentage(absRow[c], bases[1]))])

\* the percentage columns of a data row: every column against its own base
PctRow(absRow, bases) ==
  Array([c \in 1..Len(absRow) |-> PctStr(Percentage(absRow[c], bases[c]))])

\* the first delimiter of the list that occurs in the header; 0 when none
\* (the en-dash and em-dash delimiters need characters outside ASCII)
QuestionDelimiters == <<" - ", ": ", " | ", " ; ">>

extractQuestionFromHeader(header) ==
  LET hits == { d \in 1..Len(QuestionDelimiters) : includes(header, QuestionDelimiters[d]) }
  IN IF hits # {}
     THEN LET d == CHOOSE x \in hits : \A y \in hits : x <= y
          IN trim(Slice(header, 1, FirstIndexOf(header, QuestionDelimiters[d]) - 1))
     ELSE \* /^([^(]+)/
          LET paren == IndexOfChar("(", header)
          IN IF paren = 0 THEN (IF header = "" THEN header ELSE trim(header))
             ELSE IF paren = 1 THEN header
             ELSE trim(Slice(header, 1, paren - 1))

\* the banner columns after Total: one <<bannerVar, bannerVal>> per column,
\* banner variables in configured order, each with its sorted values
BannerCols(dataMap, bannerVars) ==
  Flatten([i \in 1..Len(bannerVars) |->
             LET vals == DistinctValues(dataMap, bannerVars[i])
             IN [j \in 1..Len(vals) |-> <<bannerVars[i], vals[j]>>]])

\* allBannerHeaders
BannerHeaders(dataMap, bannerVars) ==
  <<"Total">> \o Flatten([i \in 1..Len(bannerVars) |->
                            DistinctValues(dataMap, bannerVars[i])])

RECURSIVE BannerStructureFrom(_, _, _)
BannerStructureFrom(bannerVars, dataMap, currentIndex) ==
  IF bannerVars = <<>> THEN <<>>
  ELSE LET bannerValues == DistinctValues(dataMap, Head(bannerVars))
       IN << [question   |-> extractQuestionFromHeader(Head(bannerVars)),
              answers    |-> bannerValues,
              startIndex |-> currentIndex,
              endIndex   |-> currentIndex + Len(bannerValues) - 1] >>
          \o BannerStructureFrom(Tail(bannerVars), dataMap,
                                 currentIndex + Len(bannerValues))

\* createBannerStructure with currentIndex starting at the Total column
createBannerStructure_fromTotal(bannerVars, dataMap) ==
  BannerStructureFrom(bannerVars, dataMap, 0)

\* column indices are those of the code (Total is column 0)
createBannerStructure(bannerVars, dataMap) ==
  BannerStructureFrom(bannerVars, dataMap, 1)

\* base/count vectors: element 1 counts over all rows, element c + 1 over
\* the rows whose banner variable equals the banner value of column c
CountVector(dataMap, bannerCols, hit) ==
  <<Cardinality({ i \in 1..Len(dataMap) : hit[i] })>>
  \o [c \in 1..Len(bannerCols) |->
        Cardinality({ i \in 1..Len(dataMap) :
                        hit[i] /\ Cell(dataMap[i], bannerCols[c][1]) = bannerCols[c][2] })]

NoRanking == [present |-> FALSE]

Returned(result) == [threw |-> FALSE, value |-> <<result>>]

\* a call that returns null adds nothing to the results
ReturnedNull == [threw |-> FALSE, value |-> <<>>]

Thrown == [threw |-> TRUE, value |-> <<>>]

(***************************************************************************)
(* createOpenEndedCrossTab and extractThemesWithResponses                  *)
(* (the openEndedThemes block of samples is not part of this model)        *)
(***************************************************************************)

\* themeKeywords, in the order of the object literal
ThemeLibrary ==
  << [theme |-> "Price/Cost/Value",
      keywords |-> <<"price", "cost", "cheap", "expensive", "affordable", "budget",
                     "money", "value", "worth", "pricing", "fee", "charge", "rate",
                     "economical", "inexpensive">>],
     [theme |-> "Quality/Performance",
      keywords |-> <<"quality", "good", "bad", "excellent", "poor", "high-quality",
                     "low-quality", "performance", "reliable", "durable", "effective",
                     "efficient", "superior">>],
     [theme |-> "Customer Service",
      keywords |-> <<"service", "staff", "customer", "help", "support", "friendly",
                     "rude", "assistance", "representative", "team", "personnel",
                     "helpful", "professional">>],
     [theme |-> "Location/Accessibility",
      keywords |-> <<"location", "close", "near", "far", "convenient", "accessible",
                     "parking", "distance", "proximity", "nearby", "remote", "central",
                     "easy to find">>],
     [theme |-> "Product Features",
      keywords |-> <<"product", "feature", "function", "design", "style", "variety",
                     "selection", "options", "functionality", "capability",
                     "specification", "attribute">>],
     [theme |-> "User Experience",
      keywords |-> <<"experience", "feel", "atmosphere", "environment", "comfortable",
                     "pleasant", "enjoyable", "satisfaction", "impression", "usability",
                     "interface">>],
     [theme |-> "Speed/Efficiency",
      keywords |-> <<"time", "fast", "slow", "quick", "wait", "delay", "speed",
                     "efficient", "prompt", "rapid", "immediate", "timely", "responsive">>],
     [theme |-> "Recommendation/Loyalty",
      keywords |-> <<"recommend", "suggest", "refer", "tell", "friends", "family",
                     "loyalty", "trust", "confidence", "satisfaction", "repeat">>],
     [theme |-> "Communication",
      keywords |-> <<"communication", "information", "clear", "confusing", "explanation",
                     "instructions", "guidance", "feedback", "response", "contact">>],
     [theme |-> "Convenience/Ease",
      keywords |-> <<"convenient", "easy", "simple", "straightforward", "hassle",
                     "complicated", "difficult", "user-friendly", "intuitive">>] >>

\* keywords.filter(keyword => lowerResponse.includes(keyword)).length
KeywordMatches(lowerResponse, keywords) ==
  Cardinality({ k \in 1..Len(keywords) : includes(lowerResponse, keywords[k]) })

\* the theme a response is counted under: the first theme of the library with
\* the most keyword matches, 'Other' when no keyword matches
ThemeOf(response) ==
  LET hits == Array([t \in DOMAIN ThemeLibrary |->
                       KeywordMatches(toLowerCase(response), ThemeLibrary[t].keywords)])
  IN IF \A t \in DOMAIN hits : hits[t] = 0 THEN "Other"
     ELSE ThemeLibrary[CHOOSE t \in DOMAIN hits :
                         /\ \A u \in DOMAIN hits : hits[u] <= hits[t]
                         /\ \A u \in 1..(t - 1) : hits[u] < hits[t]].theme

ThemeNames == [t \in 1..Len(ThemeLibrary) |-> ThemeLibrary[t].theme] \o <<"Other">>

\* sort((a, b) => b.count - a.count), a stable sort
RECURSIVE SortByCountDesc(_)
SortByCountDesc(seq) ==
  IF seq = <<>> THEN <<>>
  ELSE LET m == CHOOSE i \in 1..Len(seq) :
                  /\ \A j \in 1..Len(seq) : seq[j].count <= seq[i].count
                  /\ \A j \in 1..(i - 1) : seq[j].count < seq[i].count
       IN <<seq[m]>> \o SortByCountDesc(Array([k \in 1..(Len(seq) - 1) |->
                                           IF k < m THEN seq[k] ELSE seq[k + 1]]))

\* themes[theme].responsesByBanner[label]: for every row categorised under
\* `theme` and every banner variable whose value in that row is `label`, the
\* response is pushed (rowTheme[i] is the theme of row i, "" when it has none)
ResponsesByBanner(dataMap, tableVar, bannerVars, rowTheme, theme, label) ==
  Flatten([i \in 1..Len(dataMap) |->
    IF rowTheme[i] = theme
    THEN Flatten([k \in 1..Len(bannerVars) |->
           LET bannerValue == Cell(dataMap[i], bannerVars[k]) IN
           IF NonBlank(bannerValue) /\ bannerValue = label
           THEN <<Cell(dataMap[i], tableVar)>> ELSE <<>>])
    ELSE <<>>])

extractThemesWithResponses(responses, dataMap, tableVar, bannerVars) ==
  IF \A k \in 1..Len(responses) : trim(responses[k]) = "" THEN <<>>
  ELSE
    LET labels == UNION { Range(DistinctValues(dataMap, bannerVars[k])) : k \in 1..Len(bannerVars) }
        rowTheme == Array([i \in 1..Len(dataMap) |->
                             IF NonBlank(Cell(dataMap[i], tableVar))
                             THEN ThemeOf(Cell(dataMap[i], tableVar)) ELSE ""])
        themes == Array([t \in 1..Len(ThemeNames) |->
                     [theme |-> ThemeNames[t],
                      count |-> Cardinality({ i \in 1..Len(dataMap) : rowTheme[i] = ThemeNames[t] }),
                      responsesByBanner |->
                        [l \in labels |->
                           ResponsesByBanner(dataMap, tableVar, bannerVars, rowTheme,
                                             ThemeNames[t], l)]]])
    IN SortByCountDesc(SelectSeq(themes, LAMBDA th : th.count > 0))

\* createOpenEndedCrossTab from the themes on: allResponses are the non-blank
\* responses, themesWithResponses the result of extractThemesWithResponses
ThemeCrossTab(dataMap, tableVar, bannerVars, displayName, allResponses, themesWithResponses) ==
    IF Len(allResponses) = 0 \/ Len(themesWithResponses) = 0 THEN ReturnedNull
    ELSE
      LET bannerCols == BannerCols(dataMap, bannerVars)
          headers    == BannerHeaders(dataMap, bannerVars)
          \* baseValues[0] is allResponses.length
          bases      == <<Len(allResponses)>>
                        \o Tail(CountVector(dataMap, bannerCols,
                                            Array([i \in 1..Len(dataMap) |->
                                                     NonBlank(Cell(dataMap[i], tableVar))])))
          absThemes == Array([t \in 1..Len(themesWithResponses) |->
                          <<themesWithResponses[t].count>>
                          \o [c \in 1..Len(bannerCols) |->
                                Len(themesWithResponses[t].responsesByBanner[bannerCols[c][2]])]])
          absolute   == <<bases, [c \in 1..Len(bases) |-> 0]>> \o absThemes
          percentage == << [c \in 1..Len(bases) |-> "100%"], [c \in 1..Len(bases) |-> ""] >>
                        \o [t \in 1..Len(absThemes) |-> PctRow(absThemes[t], bases)]
      IN Returned(
           [name              |-> tableVar \o "_themes_by_" \o join(bannerVars, "_"),
            displayName       |-> displayName,
            absolute          |-> absolute,
            percentage        |-> percentage,
            headers           |-> headers,
            rowLabels         |-> <<"FULL RESPONSES", "--- THEMATIC ANALYSIS ---">>
                                  \o [t \in 1..Len(themesWithResponses) |->
                                        themesWithResponses[t].theme],
            bannerQuestion    |-> join(bannerVars, " | "),
            bannerAnswers     |-> Tail(headers),
            questionType      |-> "open-ended",
            baseValues        |-> bases,
            validationErrors  |-> <<>>,
            significanceFlags |-> performSignificanceTests(absolute, bases),
            bannerStructure   |-> createBannerStructure(bannerVars, dataMap),
            rankingCalculations |-> NoRanking])

createOpenEndedCrossTab(dataMap, tableVar, bannerVars, displayName) ==
  LET allResponses == SelectSeq([i \in 1..Len(dataMap) |-> Cell(dataMap[i], tableVar)],
                                NonBlank)
  IN ThemeCrossTab(dataMap, tableVar, bannerVars, displayName, allResponses,
                   extractThemesWithResponses(allResponses, dataMap, tableVar, bannerVars))

(***************************************************************************)
(* createRegularCrossTab (numeric, scale and ranking columns add optional  *)
(* blocks to the result that are not part of this model)                   *)
(***************************************************************************)

PctSumWarning(header, sum) ==
  "Column \"" \o header \o "\" percentages sum to " \o IntToStr(sum)
  \o "% instead of 100%. This may indicate data quality issues."

Abs(n) == IF n < 0 THEN 0 - n ELSE n

\* sum += parseInt(pctStr.replace('%', '')) over the category rows of a column
ColumnPctSum(percentage, nRows, colIndex) ==
  [nan |-> \E r \in 1..nRows :
             isNaN(parseInt(replaceFirst(percentage[r][colIndex], "%", ""))),
   v   |-> SumSeq([r \in 1..nRows |->
                     parseInt(replaceFirst(percentage[r][colIndex], "%", "")).v])]

PctSumOutOfRange_noAbs(sum) == ~sum.nan /\ sum.v - 100 > 5

\* Math.abs(sum - 100) > 5
PctSumOutOfRange(sum) == ~sum.nan /\ Abs(sum.v - 100) > 5

RegularValidation(questionType, percentage, nCategories, headers) ==
  IF questionType \in {"single-choice", "binary"}
  THEN Flatten([c \in 1..Len(headers) |->
                  IF PctSumOutOfRange(ColumnPctSum(percentage, nCategories, c))
                  THEN <<PctSumWarning(headers[c],
                                       ColumnPctSum(percentage, nCategories, c).v)>>
                  ELSE <<>>])
  ELSE <<>>

(***************************************************************************)
(* calculateStatisticalMeasures                                            *)
(*                                                                         *)
(* A mean and a median are kept as the fraction in lowest terms that the   *)
(* double approximates, a standard deviation as the fraction of its        *)
(* square (the population variance).                                       *)
(***************************************************************************)

RECURSIVE Gcd(_, _)
Gcd(a, b) == IF b = 0 THEN a ELSE Gcd(b, a % b)

\* num / den in lowest terms, den > 0
Fraction(num, den) ==
  IF num = 0 THEN [num |-> 0, den |-> 1]
  ELSE [num |-> num \div Gcd(Abs(num), den), den |-> den \div Gcd(Abs(num), den)]

\* [...values].sort((a, b) => a - b)
RECURSIVE SortNumbers(_)
SortNumbers(values) ==
  IF values = <<>> THEN <<>>
  ELSE LET m == CHOOSE i \in 1..Len(values) :
                  /\ \A j \in 1..Len(values) : values[i] <= values[j]
                  /\ \A j \in 1..(i - 1) : values[i] < values[j]
       IN <<values[m]>> \o SortNumbers(Array([k \in 1..(Len(values) - 1) |->
                                          IF k < m THEN values[k] ELSE values[k + 1]]))

calculateMean(values) ==
  IF Len(values) = 0 THEN Fraction(0, 1)
  ELSE Fraction(SumSeq(values), Len(values))

\* mid is Math.floor(sorted.length / 2) of the zero-based array
calculateMedian(values) ==
  IF Len(values) = 0 THEN Fraction(0, 1)
  ELSE LET sorted == SortNumbers(values)
           mid == Len(sorted) \div 2
       IN IF Len(sorted) % 2 = 0
          THEN Fraction(sorted[mid] + sorted[mid + 1], 2)
          ELSE Fraction(sorted[mid + 1], 1)

\* the square of calculateStandardDeviation(values): the mean of the squared
\* differences from the mean, (n * sum of squares - square of the sum) / n^2
calculateStandardDeviation(values) ==
  IF Len(values) = 0 THEN Fraction(0, 1)
  ELSE LET n == Len(values)
           sum == SumSeq(values)
           squares == SumSeq([k \in 1..n |-> values[k] * values[k]])
       IN Fraction(n * squares - sum * sum, n * n)

\* rows.map(row => Number(row[tableVar])).filter(val => !isNaN(val))
NumbersOf(rows, tableVar) ==
  LET parsed == [i \in 1..Len(rows) |-> Number(Cell_noTrim(rows[i], tableVar))]
      kept == SelectSeq(parsed, LAMBDA n : ~isNaN(n))
  IN Array([k \in 1..Len(kept) |-> kept[k].v])

\* the values of column c: of every row for the Total column, of the rows
\* with the banner value for a banner column
ColumnNumbers(dataMap, tableVar, bannerCols, c) ==
  IF c = 1 THEN NumbersOf(dataMap, tableVar)
  ELSE NumbersOf(SelectSeq(dataMap,
                   LAMBDA row : Cell(row, bannerCols[c - 1][1]) = bannerCols[c - 1][2]),
                 tableVar)

calculateStatisticalMeasures(dataMap, tableVar, bannerCols) ==
  LET values == Array([c \in 1..(1 + Len(bannerCols)) |->
                         ColumnNumbers(dataMap, tableVar, bannerCols, c)])
  IN [present           |-> TRUE,
      mean              |-> [c \in 1..Len(values) |-> calculateMean(values[c])],
      median            |-> [c \in 1..Len(values) |-> calculateMedian(values[c])],
      standardDeviation |-> [c \in 1..Len(values) |-> calculateStandardDeviation(values[c])],
      headers           |-> <<"Total">> \o [c \in 1..Len(bannerCols) |-> bannerCols[c][2]]]

\* statisticalMeasures of a question that is neither numeric nor scale
NoMeasures == [present |-> FALSE]

(***************************************************************************)
(* calculateRankingBoxes                                                   *)
(***************************************************************************)

\* calculateBoxCount: the rows of column colIndex (1 is Total) whose cell is
\* one of the numbers targetValues
calculateBoxCount(dataMap, tableVar, bannerCols, colIndex, targetValues) ==
  IF colIndex - 1 > Len(bannerCols) THEN 0
  ELSE Cardinality({ i \in 1..Len(dataMap) :
         /\ ~isNaN(Number(Cell_noTrim(dataMap[i], tableVar)))
         /\ Number(Cell_noTrim(dataMap[i], tableVar)).v \in targetValues
         /\ \/ colIndex = 1
            \/ Cell(dataMap[i], bannerCols[colIndex - 1][1]) = bannerCols[colIndex - 1][2] })

\* one [pct] per column for each of the five rank boxes
calculateRankingBoxes(dataMap, tableVar, bannerCols, bases) ==
  LET Box(targetValues) ==
        Array([c \in 1..Len(bases) |->
                 <<Percentage(calculateBoxCount(dataMap, tableVar, bannerCols, c, targetValues),
                              bases[c])>>])
  IN [present         |-> TRUE,
      rank1           |-> Box({1}),
      rank2           |-> Box({2}),
      rank3           |-> Box({3}),
      rank1Plus2      |-> Box({1, 2}),
      rank1Plus2Plus3 |-> Box({1, 2, 3})]

createRegularCrossTab(dataMap, tableVar, bannerVars, questionType, displayName) ==
  LET tableValues == DistinctValues(dataMap, tableVar) IN
  IF questionType = "open-ended"
  THEN createOpenEndedCrossTab(dataMap, tableVar, bannerVars, displayName)
  ELSE IF Len(tableValues) = 0 THEN ReturnedNull
  ELSE
    LET bannerCols == BannerCols(dataMap, bannerVars)
        headers    == BannerHeaders(dataMap, bannerVars)
        Answered(row) == NonBlank(Cell(row, tableVar))
        bases      == CountVector(dataMap, bannerCols,
                                  Array([i \in 1..Len(dataMap) |-> Answered(dataMap[i])]))
        absRows    == Array([r \in 1..Len(tableValues) |->
                         LET Is(row) == Cell(row, tableVar) = tableValues[r]
                         IN CountVector(dataMap, bannerCols,
                                        Array([i \in 1..Len(dataMap) |-> Is(dataMap[i])]))])
        pctRows    == Array([r \in 1..Len(tableValues) |-> PctRow(absRows[r], bases)])
        absolute   == absRows \o <<bases>>
        percentage == pctRows \o << [c \in 1..Len(bases) |-> "100%"] >>
    IN Returned(
         [name              |-> tableVar \o "_by_" \o join(bannerVars, "_"),
          displayName       |-> displayName,
          absolute          |-> absolute,
          percentage        |-> percentage,
          headers           |-> headers,
          rowLabels         |-> tableValues \o <<"Total">>,
          bannerQuestion    |-> join(bannerVars, " | "),
          bannerAnswers     |-> Tail(headers),
          questionType      |-> questionType,
          baseValues        |-> bases,
          validationErrors  |-> RegularValidation(questionType, percentage,
                                                  Len(tableValues), headers),
          significanceFlags |-> performSignificanceTests(absolute, bases),
          bannerStructure   |-> createBannerStructure(bannerVars, dataMap),
          rankingCalculations |->
            IF questionType = "ranking"
            THEN calculateRankingBoxes(dataMap, tableVar, bannerCols, bases)
            ELSE NoRanking,
          statisticalMeasures |->
            IF questionType \in {"numeric", "scale"}
            THEN calculateStatisticalMeasures(dataMap, tableVar, bannerCols)
            ELSE NoMeasures])

(***************************************************************************)
(* createMultiSelectCrossTab                                               *)
(***************************************************************************)

NotSelectedWords == {"", "0", "no", "false", "n/a", "na", "null", "undefined"}

\* isSelected(row[col])
isSelected(row, col) == toLowerCase(Cell(row, col)) \notin NotSelectedWords

\* the characters of /[\s\-:|;]/ (the two dashes outside ASCII left out)
IsPrefixDelimiter(c) == c \in {" ", "-", ":", "|", ";"}

RECURSIVE stripTrailingDelimiters(_)
stripTrailingDelimiters(s) ==
  IF Len(s) > 0 /\ IsPrefixDelimiter(CharAt(s, Len(s)))
  THEN stripTrailingDelimiters(Slice(s, 1, Len(s) - 1)) ELSE s

RECURSIVE stripLeadingDelimiters(_)
stripLeadingDelimiters(s) ==
  IF Len(s) > 0 /\ IsPrefixDelimiter(Head(s))
  THEN stripLeadingDelimiters(Tail(s)) ELSE s

\* the length of the longest prefix of columns[1] shared by every column
CommonPrefixLen(columns) ==
  LET first == columns[1]
      Agree(i) == \A k \in 1..Len(columns) : CharAt(columns[k], i) = CharAt(first, i)
  IN Cardinality({ i \in 1..Len(first) : \A j \in 1..i : Agree(j) })

removeSharedPrefix(columns) ==
  IF Len(columns) <= 1 THEN columns
  ELSE LET commonPrefix ==
             stripTrailingDelimiters(Slice(columns[1], 1, CommonPrefixLen(columns)))
       IN IF Len(commonPrefix) > 3
          THEN [k \in 1..Len(columns) |->
                  LET cleaned == stripLeadingDelimiters(
                                   trim(Slice(columns[k], Len(commonPrefix) + 1,
                                               Len(columns[k]))))
                  IN IF cleaned # "" THEN cleaned ELSE columns[k]]
          ELSE columns

createMultiSelectCrossTab(dataMap, groupName, bannerVars, multiSelectCols, displayName) ==
  \* dataMap[0].hasOwnProperty(col) on an empty dataMap is a TypeError
  IF Len(dataMap) = 0 /\ Len(multiSelectCols) > 0 THEN Thrown
  ELSE
    LET bannerCols == BannerCols(dataMap, bannerVars)
        headers    == BannerHeaders(dataMap, bannerVars)
        AnySelected(row) == \E k \in 1..Len(multiSelectCols) : isSelected(row, multiSelectCols[k])
        bases      == CountVector(dataMap, bannerCols,
                                  Array([i \in 1..Len(dataMap) |-> AnySelected(dataMap[i])]))
        cleanedOptions == removeSharedPrefix(multiSelectCols)
        \* the battery columns that are columns of the data
        present    == SelectSeq([k \in 1..Len(multiSelectCols) |-> k],
                                LAMBDA k : multiSelectCols[k] \in DOMAIN dataMap[1])
        absRows    == Array([r \in 1..Len(present) |->
                         LET Sel(row) == isSelected(row, multiSelectCols[present[r]])
                         IN CountVector(dataMap, bannerCols,
                                        Array([i \in 1..Len(dataMap) |-> Sel(dataMap[i])]))])
        pctRows    == Array([r \in 1..Len(present) |-> PctRow(absRows[r], bases)])
        absolute   == absRows \o <<bases>>
        percentage == pctRows \o << [c \in 1..Len(bases) |-> "100%"] >>
    IN Returned(
         [name              |-> groupName \o "_by_" \o join(bannerVars, "_"),
          displayName       |-> displayName,
          absolute          |-> absolute,
          percentage        |-> percentage,
          headers           |-> headers,
          rowLabels         |-> [r \in 1..Len(present) |-> cleanedOptions[present[r]]]
                                \o <<"NET: Any Response">>,
          bannerQuestion    |-> join(bannerVars, " | "),
          bannerAnswers     |-> Tail(headers),
          questionType      |-> "multiple-choice",
          baseValues        |-> bases,
          validationErrors  |-> IF bases[1] = 0
                                THEN <<"No respondents found who answered any option in multi-select group: "
                                       \o groupName>>
                                ELSE <<>>,
          significanceFlags |-> performSignificanceTests(absolute, bases),
          bannerStructure   |-> createBannerStructure(bannerVars, dataMap),
          rankingCalculations |-> NoRanking])

(***************************************************************************)
(* rankingProcessor.ts                                                     *)
(***************************************************************************)

IsR(c) == c = "R" \/ c = "r"

\* the index of the first character at or after i that is not a blank
RECURSIVE SkipSpaces(_, _)
SkipSpaces(s, i) == IF IsSpace(CharAt(s, i)) THEN SkipSpaces(s, i + 1) ELSE i

\* the number of digits of s starting at position i
RECURSIVE DigitRun(_, _)
DigitRun(s, i) == IF IsDigit(CharAt(s, i)) THEN 1 + DigitRun(s, i + 1) ELSE 0

\* the four patterns of extractRankQuestionRoot, each tried with its lazy
\* group (.+?) ending at position g:
\*   /^(.+?)_[Rr]ank?\d+/   /^(.+?)_[Rr]\d+/   /^(.+?)_Rank_?\d+/
\*   /^(.+?)\s+[Rr]ank\s*\d+/
RootPatternAt(n, s, g) ==
  CASE n = 1 -> /\ CharAt(s, g + 1) = "_" /\ IsR(CharAt(s, g + 2))
                /\ Slice(s, g + 3, g + 4) = "an"
                /\ \/ IsDigit(CharAt(s, g + 5))
                   \/ CharAt(s, g + 5) = "k" /\ IsDigit(CharAt(s, g + 6))
    [] n = 2 -> /\ CharAt(s, g + 1) = "_" /\ IsR(CharAt(s, g + 2))
                /\ IsDigit(CharAt(s, g + 3))
    [] n = 3 -> /\ Slice(s, g + 1, g + 5) = "_Rank"
                /\ \/ IsDigit(CharAt(s, g + 6))
                   \/ CharAt(s, g + 6) = "_" /\ IsDigit(CharAt(s, g + 7))
    [] n = 4 -> /\ IsSpace(CharAt(s, g + 1))
                /\ LET j == SkipSpaces(s, g + 1)
                   IN /\ IsR(CharAt(s, j))
                      /\ Slice(s, j + 1, j + 3) = "ank"
                      /\ IsDigit(CharAt(s, SkipSpaces(s, j + 4)))

extractRankQuestionRoot(header) ==
  LET Hits(n) == { g \in 1..Len(header) : RootPatternAt(n, header, g) }
      matching == { n \in 1..4 : Hits(n) # {} }
  IN IF matching # {}
     THEN LET n == CHOOSE x \in matching : \A y \in matching : x <= y
              g == CHOOSE x \in Hits(n) : \A y \in Hits(n) : x <= y
          IN trim(Slice(header, 1, g))
     ELSE \* header.split(/[_\s]/)[0]
          LET seps == { i \in 1..Len(header) : CharAt(header, i) = "_" \/ IsSpace(CharAt(header, i)) }
          IN IF seps = {} THEN header
             ELSE Slice(header, 1, (CHOOSE x \in seps : \A y \in seps : x <= y) - 1)

\* /[Rr]ank?_?(\d+)|[Rr](\d+)/ at position i: the captured digits, "" when
\* the pattern does not match there
RankNumAt(column, i) ==
  IF ~IsR(CharAt(column, i)) THEN ""
  ELSE LET afterAn == i + 3
           afterK  == IF CharAt(column, afterAn) = "k" THEN afterAn + 1 ELSE afterAn
           afterU  == IF CharAt(column, afterK) = "_" THEN afterK + 1 ELSE afterK
           first   == /\ Slice(column, i + 1, i + 2) = "an"
                      /\ IsDigit(CharAt(column, afterU))
       IN IF first THEN Slice(column, afterU, afterU + DigitRun(column, afterU) - 1)
          ELSE IF IsDigit(CharAt(column, i + 1))
          THEN Slice(column, i + 1, i + DigitRun(column, i + 1))
          ELSE ""

\* the first element of a sequence of strings that is not "", the result of
\* the leftmost successful attempt; "" when every attempt fails
FirstNonEmpty(seq) ==
  IF \A i \in DOMAIN seq : seq[i] = "" THEN ""
  ELSE seq[CHOOSE i \in DOMAIN seq : seq[i] # "" /\ \A j \in 1..(i - 1) : seq[j] = ""]

\* the rank number of a column: the leftmost match; "" when there is none
RankNumOf(column) ==
  FirstNonEmpty(Array([i \in 1..Len(column) |-> RankNumAt(column, i)]))

\* sort() of string sequences (duplicates kept): the element at position k
\* is the one with k - 1 elements before it
SortStringSeq(seq) ==
  Array([k \in 1..Len(seq) |->
           seq[CHOOSE i \in 1..Len(seq) :
                 Cardinality({ j \in 1..Len(seq) :
                                 \/ StrLess(seq[j], seq[i])
                                 \/ seq[j] = seq[i] /\ j < i }) = k - 1]])

\* rank numbers in ascending numeric order (keys are the digit strings; the
\* headers of the model have no two keys of the same value)
SortRankKeys(S) ==
  Array([k \in 1..Cardinality(S) |->
           CHOOSE x \in S :
             Cardinality({ y \in S : parseInt(y).v < parseInt(x).v }) = k - 1])

groupColumnsByRank(columns) ==
  LET keys == SortRankKeys({ RankNumOf(columns[k]) : k \in 1..Len(columns) } \ {""})
  IN Array([g \in 1..Len(keys) |->
              SortStringSeq(SelectSeq(columns, LAMBDA col : RankNumOf(col) = keys[g]))])

\* the text (.+)$ captures after the rank token starting at position i of
\* /(?:[Rr]ank?\d*_?|[Rr]\d+_?)(.+)$/ ; "" when the pattern fails at i.
\* `from` is the first position after the fixed letters, minDigits the
\* number of digits the alternative requires.
OptionTail(column, from, minDigits) ==
  LET m    == DigitRun(column, from)
      rest == Slice(column, from + m, Len(column))
  IN IF m < minDigits THEN ""
     ELSE IF Len(rest) >= 1
     THEN (IF Head(rest) = "_" /\ Len(rest) > 1 THEN Tail(rest) ELSE rest)
     ELSE IF m > minDigits THEN CharAt(column, from + m - 1)
     ELSE ""

OptionCaptureAt(column, i) ==
  IF ~IsR(CharAt(column, i)) THEN ""
  ELSE FirstNonEmpty(
         << \* [Rr]ank\d*_?
            IF Slice(column, i + 1, i + 3) = "ank"
            THEN OptionTail(column, i + 4, 0) ELSE "",
            \* [Rr]an\d*_?
            IF Slice(column, i + 1, i + 2) = "an"
            THEN OptionTail(column, i + 3, 0) ELSE "",
            \* [Rr]\d+_?
            OptionTail(column, i + 1, 1) >>)

RECURSIVE stripUnderscores(_)
stripUnderscores(s) ==
  IF Len(s) > 0 /\ Head(s) = "_" THEN stripUnderscores(Tail(s))
  ELSE IF Len(s) > 0 /\ CharAt(s, Len(s)) = "_"
  THEN stripUnderscores(Slice(s, 1, Len(s) - 1))
  ELSE s

RECURSIVE underscoresToSpaces(_)
underscoresToSpaces(s) ==
  IF Len(s) = 0 THEN ""
  ELSE (IF Head(s) = "_" THEN " " ELSE Head(s)) \o underscoresToSpaces(Tail(s))

\* the option name of one column; "" when none is found
OptionOf(column) ==
  trim(underscoresToSpaces(stripUnderscores(
    FirstNonEmpty(Array([i \in 1..Len(column) |-> OptionCaptureAt(column, i)])))))

RECURSIVE DedupInOrder(_, _)
DedupInOrder(seq, seen) ==
  IF seq = <<>> THEN <<>>
  ELSE IF Head(seq) = "" \/ Head(seq) \in seen THEN DedupInOrder(Tail(seq), seen)
  ELSE <<Head(seq)>> \o DedupInOrder(Tail(seq), seen \cup {Head(seq)})

extractOptionsFromRankGroup(rankColumns) ==
  DedupInOrder([k \in 1..Len(rankColumns) |-> OptionOf(rankColumns[k])], {})

GroupOr(rankGroups, k) == IF k <= Len(rankGroups) THEN rankGroups[k] ELSE <<>>

\* <<>> stands for null
RankStructureOf(questionRoot, rankGroups) ==
  IF Len(rankGroups) < 2 THEN <<>>
  ELSE LET options == extractOptionsFromRankGroup(rankGroups[1]) IN
       IF Len(options) = 0 THEN <<>>
       ELSE IF \E g \in 1..Len(rankGroups) : Len(rankGroups[g]) # Len(options) THEN <<>>
       ELSE << [questionName  |-> questionRoot,
                options       |-> options,
                \* Math.min(3, rankGroups.length - 1)
                maxRanks      |-> IF Len(rankGroups) - 1 < 3
                                  THEN Len(rankGroups) - 1 ELSE 3,
                \* rankGroups[1], [2], [3] of the zero-based array
                columnMapping |-> [rank1Columns |-> GroupOr(rankGroups, 2),
                                   rank2Columns |-> GroupOr(rankGroups, 3),
                                   rank3Columns |-> GroupOr(rankGroups, 4)]] >>

analyzeRankStructure(questionRoot, rankColumns) ==
  RankStructureOf(questionRoot, groupColumnsByRank(SortStringSeq(rankColumns)))

detectRankQuestionStructure(headers, questionTypes) ==
  LET rankingHeaders == SelectSeq(headers,
                          LAMBDA h : h \in DOMAIN questionTypes /\ questionTypes[h] = "ranking")
      roots == DedupInOrder([k \in 1..Len(rankingHeaders) |->
                               extractRankQuestionRoot(rankingHeaders[k])], {})
  IN Flatten([r \in 1..Len(roots) |->
                analyzeRankStructure(roots[r],
                  SelectSeq(rankingHeaders,
                            LAMBDA h : extractRankQuestionRoot(h) = roots[r]))])

\* value !== '' && value !== '0' && value !== 'null' && value !== 'undefined'
HasRankValue(row, col) == Cell(row, col) \notin {"", "0", "null", "undefined"}

\* rankKColumns[optionIndex], "" for undefined
ColumnAt(cols, optionIndex) == IF optionIndex <= Len(cols) THEN cols[optionIndex] ELSE ""

\* calculateRankCount; colIndex is 1 for the Total column
calculateRankCount(dataMap, columnName, bannerCols, colIndex) ==
  IF columnName = "" THEN 0
  ELSE IF colIndex = 1
  THEN Cardinality({ i \in 1..Len(dataMap) : HasRankValue(dataMap[i], columnName) })
  ELSE IF colIndex - 1 <= Len(bannerCols)
  THEN Cardinality({ i \in 1..Len(dataMap) :
                       /\ HasRankValue(dataMap[i], columnName)
                       /\ Cell(dataMap[i], bannerCols[colIndex - 1][1])
                            = bannerCols[colIndex - 1][2] })
  ELSE 0

createRankingCrossTab(dataMap, rankStructure, bannerCols, bases) ==
  LET options == rankStructure.options
      mapping == rankStructure.columnMapping
      Count(cols, o, c) == calculateRankCount(dataMap, ColumnAt(cols, o), bannerCols, c)
      Rows(Value(_, _)) ==
        Array([o \in 1..Len(options) |->
                 Array([c \in 1..Len(bases) |-> Percentage(Value(o, c), bases[c])])])
      R1(o, c)   == Count(mapping.rank1Columns, o, c)
      R2(o, c)   == Count(mapping.rank2Columns, o, c)
      R3(o, c)   == Count(mapping.rank3Columns, o, c)
      R12(o, c)  == R1(o, c) + R2(o, c)
      R123(o, c) == R1(o, c) + R2(o, c) + R3(o, c)
  IN [present         |-> TRUE,
      rank1Only       |-> Rows(R1),
      rank2Only       |-> Rows(R2),
      rank3Only       |-> Rows(R3),
      rank1Plus2      |-> Rows(R12),
      rank1Plus2Plus3 |-> Rows(R123),
      rankOptions     |-> options,
      maxRanks        |-> rankStructure.maxRanks]

\* Math.round((pct * base) / 100)
RoundAbs(pct, base) == (2 * pct * base + 100) \div 200

\* one section of the ranking table: separator row, then one row per option
RankSection(label, rows, rankOptions, bases) ==
  IF Len(rows) > 0
  THEN [labels     |-> <<"--- " \o label \o " ---">>
                       \o [o \in 1..Len(rows) |->
                             IF o <= Len(rankOptions) /\ rankOptions[o] # ""
                             THEN rankOptions[o] ELSE "Option " \o IntToStr(o)],
        absolute   |-> << [c \in 1..Len(bases) |-> 0] >>
                       \o [o \in 1..Len(rows) |->
                             [c \in 1..Len(rows[o]) |-> RoundAbs(rows[o][c], bases[c])]],
        percentage |-> << [c \in 1..Len(bases) |-> ""] >>
                       \o [o \in 1..Len(rows) |->
                             [c \in 1..Len(rows[o]) |-> PctStr(rows[o][c])]]]
  ELSE [labels |-> <<>>, absolute |-> <<>>, percentage |-> <<>>]

\* the five sections of the ranking table, in the order they are laid out
RankSections(calc, bases) ==
  << RankSection("RANK 1 ONLY", calc.rank1Only, calc.rankOptions, bases),
     RankSection("RANK 2 ONLY", calc.rank2Only, calc.rankOptions, bases),
     RankSection("RANK 3 ONLY", calc.rank3Only, calc.rankOptions, bases),
     RankSection("RANK 1 + 2", calc.rank1Plus2, calc.rankOptions, bases),
     RankSection("RANK 1 + 2 + 3", calc.rank1Plus2Plus3, calc.rankOptions, bases) >>

createRankQuestionCrossTab(dataMap, questionName, bannerVars, rankStructure, displayName) ==
  LET bannerCols == BannerCols(dataMap, bannerVars)
      headers    == BannerHeaders(dataMap, bannerVars)
      allRankColumns == rankStructure.columnMapping.rank1Columns
                        \o rankStructure.columnMapping.rank2Columns
                        \o rankStructure.columnMapping.rank3Columns
      AnyRanking(row) == \E k \in 1..Len(allRankColumns) :
                           allRankColumns[k] # "" /\ HasRankValue(row, allRankColumns[k])
      bases      == CountVector(dataMap, bannerCols,
                                Array([i \in 1..Len(dataMap) |-> AnyRanking(dataMap[i])]))
      calc       == createRankingCrossTab(dataMap, rankStructure, bannerCols, bases)
      sections   == RankSections(calc, bases)
      absolute   == Flatten([k \in 1..5 |-> sections[k].absolute])
  IN Returned(
       [name              |-> questionName \o "_ranking_by_" \o join(bannerVars, "_"),
        displayName       |-> displayName,
        absolute          |-> absolute,
        percentage        |-> Flatten([k \in 1..5 |-> sections[k].percentage]),
        headers           |-> headers,
        rowLabels         |-> Flatten([k \in 1..5 |-> sections[k].labels]),
        bannerQuestion    |-> join(bannerVars, " | "),
        bannerAnswers     |-> Tail(headers),
        questionType      |-> "ranking",
        baseValues        |-> bases,
        validationErrors  |-> IF bases[1] = 0
                              THEN <<"No respondents found who provided rankings for: "
                                     \o questionName>>
                              ELSE <<>>,
        significanceFlags |-> performSignificanceTests(absolute, bases),
        bannerStructure   |-> createBannerStructure(bannerVars, dataMap),
        rankingCalculations |-> calc])

(***************************************************************************)
(* generateCrossTabs                                                       *)
(***************************************************************************)

createCustomVariableCrossTab(dataMap, variableName, bannerVars, customVariable, displayName) ==
  ReturnedNull

\* the body of config.tableVariables.forEach for one table variable
CrossTabFor(d, cfg, dataMap, rankQuestionStructures, tableVar) ==
  LET displayName == GetOr(cfg.tableNames, tableVar, tableVar)
      ranked == SelectSeq(rankQuestionStructures, LAMBDA rank : rank.questionName = tableVar)
  IN IF tableVar \in DOMAIN cfg.multiSelectGroups
     THEN (IF Len(cfg.multiSelectGroups[tableVar]) > 0
           THEN createMultiSelectCrossTab(dataMap, tableVar, cfg.bannerVariables,
                                          cfg.multiSelectGroups[tableVar], displayName)
           ELSE ReturnedNull)
     ELSE IF tableVar \in DOMAIN cfg.customVariables
     THEN createCustomVariableCrossTab(dataMap, tableVar, cfg.bannerVariables,
                                       cfg.customVariables[tableVar], displayName)
     ELSE IF Len(ranked) > 0
     THEN createRankQuestionCrossTab(dataMap, tableVar, cfg.bannerVariables,
                                     ranked[1], displayName)
     ELSE IF tableVar \in Range(d.headers)
     THEN createRegularCrossTab(dataMap, tableVar, cfg.bannerVariables,
                                GetOr(cfg.questionTypes, tableVar, "single-choice"),
                                displayName)
     ELSE ReturnedNull

\* results.push(crossTab) when the aggregator returned a table; an exception
\* ends the whole call and nothing after it runs
Push(acc, r) ==
  IF acc.threw \/ r.threw THEN Thrown
  ELSE [threw |-> FALSE, value |-> acc.value \o r.value]

\* the forEach over the table variables
RECURSIVE CrossTabsFrom(_, _, _, _, _, _)
CrossTabsFrom(d, cfg, dataMap, rankQuestionStructures, tableVars, acc) ==
  IF tableVars = <<>> THEN acc
  ELSE CrossTabsFrom(d, cfg, dataMap, rankQuestionStructures, Tail(tableVars),
                     Push(acc, CrossTabFor(d, cfg, dataMap, rankQuestionStructures,
                                           Head(tableVars))))

\* filteredData.rows.map(row => rowData)
DataMap(headers, rows) ==
  Array([i \in 1..Len(rows) |-> RowData(headers, rows[i])])

generateCrossTabs(d, cfg) ==
  CrossTabsFrom(d, cfg,
                DataMap(d.headers, applyFilters(d, cfg.filters).rows),
                detectRankQuestionStructure(d.headers, cfg.questionTypes),
                cfg.tableVariables,
                [threw |-> FALSE, value |-> <<>>])

\* the headers the caller holds after detectRankQuestionStructure(headers,
\* questionTypes): rankColumns.sort() sorts an array of questionGroups, which
\* is filled by push from headers.filter(...), and the groups of
\* groupColumnsByRank are filled by push as well
HeadersAfter_detectRankQuestionStructure(headers, questionTypes) == headers

\* the dataset the caller holds after generateCrossTabs(data, config): dataMap
\* is built by filteredData.rows.map(...) into new objects, which are all that
\* the aggregators receive of the rows
DataAfter_generateCrossTabs(d, cfg) ==
  [DataAfter_applyFilters(d, cfg.filters) EXCEPT
     !.headers = HeadersAfter_detectRankQuestionStructure(@, cfg.questionTypes)]

(***************************************************************************)
(* Values of the variables an operation does not use                       *)
(***************************************************************************)

NoData == [headers |-> <<>>, rows |-> <<>>, fileName |-> ""]

NoConfig ==
  [tableVariables |-> <<>>, bannerVariables |-> <<>>, multiSelectGroups |-> EmptyMap,
   questionTypes |-> EmptyMap, tableNames |-> EmptyMap, filters |-> EmptyMap,
   customVariables |-> EmptyMap, nestedFilters |-> <<>>]

NoZResult == NotSignificant

NoSettings ==
  [minCategorySize |-> 0, maxCategories |-> 0, similarityThreshold |-> [num |-> 0, den |-> 1],
   useSemanticClustering |-> FALSE, excludeShortResponses |-> FALSE, minResponseLength |-> 0]

NoCoding == [threw |-> FALSE, responses |-> <<>>, categories |-> <<>>]

EngineIdle ==
  /\ data = NoData /\ config = NoConfig /\ results = <<>> /\ threw = FALSE
  /\ filteredData = NoData
  /\ absoluteData = <<>> /\ baseValues = <<>> /\ significanceFlags = <<>>
  /\ zArgs = <<0, 0, 0, 0>> /\ zResult = NoZResult

CoderIdle ==
  /\ openEndResponses = <<>> /\ settings = NoSettings /\ coding = NoCoding

TypeIdle ==
  /\ sampleHeader = "" /\ sampleValues = <<>> /\ hostDates = {}
  /\ analysis = [type |-> "", confidence |-> 0]

GroupsIdle == detectedGroups = <<>> /\ checkedBoxes = <<>>

\* useState({ counts: true, percentages: true })
DefaultOutputOptions == [counts |-> TRUE, percentages |-> TRUE]

OptionsIdle ==
  /\ outputOptions = DefaultOutputOptions /\ showOutputModal = FALSE
  /\ analysisTimer = FALSE /\ optionChanges = <<>>

\* nothing has been exported
NoExport == [done |-> FALSE, threw |-> FALSE, bannerHeaders |-> <<>>]

ExportIdle == exported = NoExport

\* the similarities of no response
NoSimilarities == [p \in {} |-> 0]

ClusterIdle == cosineMatrix = NoSimilarities /\ hcClusters = <<>> /\ merges = 0

\* no timer pending
NoTimer == [pending |-> FALSE, excelData |-> NoData, closure |-> NoConfig]

AppIdle ==
  /\ currentStep = "onboarding" /\ showNamingModal = FALSE /\ namingTimer = NoTimer
  /\ pendingFiles = {}

ToolsIdle == CoderIdle /\ TypeIdle /\ GroupsIdle /\ OptionsIdle /\ ExportIdle /\ ClusterIdle /\ AppIdle

(***************************************************************************)
(* zTestForProportions on bounded arguments                                *)
(***************************************************************************)

MaxZCount == 4

ZInit ==
  /\ pc = "z_ready"
  /\ zArgs \in (0..MaxZCount) \X (0..MaxZCount) \X (0..MaxZCount) \X (0..MaxZCount)
  /\ zResult = NoZResult
  /\ data = NoData /\ config = NoConfig /\ results = <<>> /\ threw = FALSE
  /\ filteredData = NoData
  /\ absoluteData = <<>> /\ baseValues = <<>> /\ significanceFlags = <<>>
  /\ ToolsIdle

ZTest ==
  /\ pc = "z_ready"
  /\ zResult' = zTestForProportions(zArgs[1], zArgs[2], zArgs[3], zArgs[4])
  /\ pc' = "z_done"
  /\ UNCHANGED <<data, config, results, threw, filteredData, absoluteData,
                 baseValues, significanceFlags, zArgs>>
  /\ UNCHANGED toolVars

SpecZ == ZInit /\ [][ZTest]_vars

(***************************************************************************)
(* performSignificanceTests on bounded matrices                            *)
(***************************************************************************)

MaxSigRows == 2

MaxSigCols == 2

MaxSigCount == 2

SigInit ==
  /\ pc = "sig_ready"
  /\ \E nRows \in 1..MaxSigRows, nCols \in 1..MaxSigCols :
       /\ absoluteData \in [1..nRows -> [1..nCols -> 0..MaxSigCount]]
       /\ baseValues \in [1..nCols -> 0..MaxSigCount]
  /\ significanceFlags = <<>>
  /\ data = NoData /\ config = NoConfig /\ results = <<>> /\ threw = FALSE
  /\ filteredData = NoData
  /\ zArgs = <<0, 0, 0, 0>> /\ zResult = NoZResult
  /\ ToolsIdle

SigTest ==
  /\ pc = "sig_ready"
  /\ significanceFlags' = performSignificanceTests(absoluteData, baseValues)
  /\ pc' = "sig_done"
  /\ UNCHANGED <<data, config, results, threw, filteredData, absoluteData,
                 baseValues, zArgs, zResult>>
  /\ UNCHANGED toolVars

SpecSig == SigInit /\ [][SigTest]_vars

(***************************************************************************)
(* applyFilters on bounded datasets and filter maps                        *)
(***************************************************************************)

MaxFilterRows == 2

FilterHeaders == <<"Age", "City">>

\* rows of the filter datasets
FilterRowKinds ==
  { <<"", "Rome">>, <<"5", "rome ">>, <<"12", "Oslo">>, <<"abc", "">>,
    <<" 7 ", "Rome">>, <<"-3", "Oslo">> }

FilterDatasets ==
  { [headers |-> FilterHeaders, rows |-> r, fileName |-> "survey.xlsx"] :
      r \in UNION { [1..n -> FilterRowKinds] : n \in 0..MaxFilterRows } }

Flt(column, operator, value, secondValue) ==
  [column |-> column, operator |-> operator, value |-> value, secondValue |-> secondValue]

SimpleFilters ==
  { Flt("Age", op, v, NoSecond) :
      op \in {"greater_than", "less_than"}, v \in {"", "6", "abc", "-1"} }
  \cup
  { Flt("Age", "in_range", v, sv) :
      v \in {"", "4", "abc", "-5"}, sv \in {NoSecond, Second(""), Second("10"), Second("abc")} }
  \cup
  { Flt("City", op, v, NoSecond) :
      op \in {"equals", "not_equals", "contains", "not_contains", "is_empty",
              "is_not_empty", "starts_with", "ends_with"},
      v \in {"ROME", "o", ""} }
  \cup { Flt("Country", "equals", "x", NoSecond) }

FilterMaps ==
  { EmptyMap }
  \cup { [id \in {"filter_1"} |-> f] : f \in SimpleFilters }
  \cup { [id \in {"filter_1", "filter_2"} |-> IF id = "filter_1" THEN f ELSE g] :
           f \in { Flt("Age", "greater_than", "6", NoSecond),
                   Flt("Age", "less_than", "6", NoSecond),
                   Flt("Age", "in_range", "4", Second("10")) },
           g \in { Flt("City", "equals", "ROME", NoSecond),
                   Flt("City", "not_contains", "o", NoSecond),
                   Flt("City", "contains", "o", NoSecond) } }

\* a nested group that, were it applied, would keep only rows of Oslo
OsloGroup ==
  [id |-> "group_1", operator |-> "AND", not |-> FALSE,
   conditions |-> << [id |-> "cond_1", column |-> "City", operator |-> "equals",
                      value |-> "Oslo", not |-> FALSE] >>]

FilterInit ==
  /\ pc = "flt_ready"
  /\ data \in FilterDatasets
  /\ \E f \in FilterMaps, nested \in {<<>>, <<OsloGroup>>} :
       config = [NoConfig EXCEPT !.filters = f, !.nestedFilters = nested]
  /\ filteredData = NoData
  /\ results = <<>> /\ threw = FALSE
  /\ absoluteData = <<>> /\ baseValues = <<>> /\ significanceFlags = <<>>
  /\ zArgs = <<0, 0, 0, 0>> /\ zResult = NoZResult
  /\ ToolsIdle

ApplyFilters ==
  /\ pc = "flt_ready"
  /\ filteredData' = applyFilters(data, config.filters)
  /\ pc' = "flt_done"
  /\ data' = DataAfter_applyFilters(data, config.filters)
  /\ UNCHANGED <<config, results, threw, absoluteData, baseValues,
                 significanceFlags, zArgs, zResult>>
  /\ UNCHANGED toolVars

SpecFilter == FilterInit /\ [][ApplyFilters]_vars

(***************************************************************************)
(* generateCrossTabs on bounded datasets and configurations                *)
(***************************************************************************)

\* the largest number of rows of an enumerated dataset
MaxRows == 3

Dataset(headers, rows) == [headers |-> headers, rows |-> rows, fileName |-> "survey.xlsx"]

DatasetsOver(headers, rowKinds) ==
  { Dataset(headers, r) : r \in UNION { [1..n -> rowKinds] : n \in 0..MaxRows } }

Config(tableVariables, bannerVariables) ==
  [NoConfig EXCEPT !.tableVariables = tableVariables, !.bannerVariables = bannerVariables]

\* --- a plain column Gender with banners Region and Zone (Zone shares the
\*     answer label North with Region)
RegularHeaders == <<"Gender", "Region", "Zone">>

RegularRowKinds ==
  { <<"Male", "North", "East">>, <<"Female", "South", "North">>,
    <<"", "North", "East">>, <<" Male ", "South", "">>,
    <<"null", "", "East">> }

RegionIsNorth == [id \in {"filter_1"} |-> Flt("Region", "equals", "north", NoSecond)]

RegularConfigs ==
  { [Config(<<"Gender">>, bv) EXCEPT !.questionTypes = qf[1], !.filters = qf[2]] :
      bv \in { <<>>, <<"Region">>, <<"Region", "Zone">> },
      qf \in { <<EmptyMap, EmptyMap>>,
               <<[h \in {"Gender"} |-> "binary"], RegionIsNorth>>,
               <<[h \in {"Gender"} |-> "date"], EmptyMap>> } }
  \cup
  { [Config(<<"Segment", "Gender", "Missing", "Region">>, <<"Zone">>)
       EXCEPT !.customVariables = [v \in {"Segment"} |->
                                     [id |-> "Segment", name |-> "Segment", type |-> "recode"]],
              !.tableNames = [v \in {"Gender"} |-> "Sex"]] }

\* --- a multi-select battery Brands over two columns, one configuration
\*     naming a column the data does not have
MultiHeaders == <<"Brands - Acme", "Brands - Bolt", "Region">>

MultiRowKinds ==
  { <<"Yes", "x", "North">>, <<"N/A", "1", "South">>, <<"", "0", "North">>,
    <<"1", "FALSE", "">> }

MultiConfigs ==
  { [Config(<<"Brands">>, bv) EXCEPT !.multiSelectGroups = [g \in {"Brands"} |-> cols]] :
      bv \in { <<>>, <<"Region">> },
      cols \in { <<"Brands - Acme", "Brands - Bolt">>,
                 <<"Brands - Acme", "Brands - Core", "Brands - Bolt">> } }

\* --- a ranking battery Q5 of two options with three rank levels
RankHeaders ==
  <<"Q5_Rank1_A", "Q5_Rank1_B", "Q5_Rank2_A", "Q5_Rank2_B", "Q5_Rank3_A", "Q5_Rank3_B",
    "Region">>

RankRowKinds ==
  { <<"1", "", "", "1", "", "", "North">>, <<"", "1", "1", "", "1", "1", "South">>,
    <<"0", "", "", "", "", "", "South">>, <<"", "", "", "", "1", "1", "">> }

RankConfigs ==
  { [Config(<<"Q5">>, bv)
       EXCEPT !.questionTypes = [h \in Range(RankHeaders) \ {"Region"} |-> "ranking"]] :
      bv \in { <<>>, <<"Region">> } }

\* --- an open-ended column Why
OpenHeaders == <<"Why", "Region", "Zone">>

OpenRowKinds ==
  { <<"Good price", "North", "East">>, <<"slow service", "South", "North">>,
    <<"zzz", "", "North">>, <<"", "South", "East">> }

OpenConfigs ==
  { [Config(<<"Why">>, bv) EXCEPT !.questionTypes = [h \in {"Why"} |-> "open-ended"]] :
      bv \in { <<>>, <<"Region">>, <<"Region", "Zone">> } }

\* --- a numeric column Age with banner Region, also typed as a scale and as
\*     a single-column ranking
NumericHeaders == <<"Age", "Region">>

NumericRowKinds ==
  { <<"30", "North">>, <<"", "North">>, <<"abc", "South">>, <<"10", "South">>,
    <<"1", "North">> }

NumericConfigs ==
  { [Config(<<"Age">>, bv) EXCEPT !.questionTypes = [h \in {"Age"} |-> type]] :
      bv \in { <<>>, <<"Region">> }, type \in {"numeric", "scale", "ranking"} }

\* --- Scenario A: 60 Male and 40 Female; North 30 Male and 10 Female, South
\*     30 Male and 30 Female
ScenarioAData ==
  Dataset(<<"Gender", "Region">>,
          [i \in 1..100 |->
             IF i <= 30 THEN <<"Male", "North">>
             ELSE IF i <= 40 THEN <<"Female", "North">>
             ELSE IF i <= 70 THEN <<"Male", "South">>
             ELSE <<"Female", "South">>])

ScenarioAConfig ==
  [Config(<<"Gender">>, <<"Region">>) EXCEPT !.questionTypes = [h \in {"Gender"} |-> "binary"]]

\* --- Scenario B: three yes/no columns, ten rows, every row selecting at
\*     least one column; the first column is selected by seven rows
ScenarioBData ==
  Dataset(<<"Uses - Web", "Uses - App", "Uses - Phone">>,
          [i \in 1..10 |->
             IF i <= 4 THEN <<"Yes", "No", "No">>
             ELSE IF i <= 7 THEN <<"Yes", "Yes", "No">>
             ELSE IF i <= 9 THEN <<"No", "Yes", "Yes">>
             ELSE <<"No", "No", "Yes">>])

ScenarioBConfig ==
  [Config(<<"Uses">>, <<>>)
     EXCEPT !.multiSelectGroups =
              [g \in {"Uses"} |-> <<"Uses - Web", "Uses - App", "Uses - Phone">>]]

\* --- Scenario C: a ranking battery Q7 of three options whose six columns
\*     carry the rank suffixes _Rank1 and _Rank2
ScenarioCHeaders ==
  <<"Q7_Rank1_Price", "Q7_Rank1_Quality", "Q7_Rank1_Service",
    "Q7_Rank2_Price", "Q7_Rank2_Quality", "Q7_Rank2_Service">>

ScenarioCData ==
  Dataset(ScenarioCHeaders,
          <<(<<"1", "", "", "", "1", "">>), (<<"", "1", "", "", "", "1">>),
            (<<"", "", "1", "1", "", "">>)>>)

ScenarioCConfig ==
  [Config(<<"Q7">>, <<>>)
     EXCEPT !.questionTypes = [h \in Range(ScenarioCHeaders) |-> "ranking"]]

Inputs ==
  (DatasetsOver(RegularHeaders, RegularRowKinds) \X RegularConfigs)
  \cup (DatasetsOver(MultiHeaders, MultiRowKinds) \X MultiConfigs)
  \cup (DatasetsOver(RankHeaders, RankRowKinds) \X RankConfigs)
  \cup (DatasetsOver(OpenHeaders, OpenRowKinds) \X OpenConfigs)
  \cup (DatasetsOver(NumericHeaders, NumericRowKinds) \X NumericConfigs)
  \cup { <<ScenarioAData, ScenarioAConfig>>, <<ScenarioBData, ScenarioBConfig>>,
         <<ScenarioCData, ScenarioCConfig>> }

Init ==
  /\ pc = "ready"
  /\ \E in \in Inputs : data = in[1] /\ config = in[2]
  /\ results = <<>>
  /\ threw = FALSE
  /\ filteredData = NoData
  /\ absoluteData = <<>> /\ baseValues = <<>> /\ significanceFlags = <<>>
  /\ zArgs = <<0, 0, 0, 0>> /\ zResult = NoZResult
  /\ ToolsIdle

\* one run of generateCrossTabs(data, config)
GenerateCrossTabs ==
  /\ pc = "ready"
  /\ \E out \in {generateCrossTabs(data, config)} :
        /\ results' = out.value
        /\ threw' = out.threw
  /\ pc' = "done"
  /\ data' = DataAfter_generateCrossTabs(data, config)
  /\ UNCHANGED <<config, filteredData, absoluteData, baseValues,
                 significanceFlags, zArgs, zResult>>
  /\ UNCHANGED toolVars

(***************************************************************************)
(* excelExporter.ts: exportToExcelWithIndex as far as it reads the results *)
(***************************************************************************)

\* the cell that holds the value undefined; no answer is this string, since
\* createBannerStructure drops the value 'undefined'
UndefinedCell == "undefined"

\* the cells one banner adds to the question row and to the answer row
BannerQuestionCells(banner) ==
  <<banner.question>> \o [i \in 1..(Len(banner.answers) - 1) |-> ""]

BannerAnswerCells(banner) ==
  IF banner.answers = <<>> THEN <<UndefinedCell>> ELSE banner.answers

createBannerHeaders(result) ==
  IF Len(result.bannerStructure) = 0
  THEN << <<"">> \o result.headers >>
  ELSE << <<"", "Total">>
            \o Flatten([b \in 1..Len(result.bannerStructure) |->
                          BannerQuestionCells(result.bannerStructure[b])]),
          <<"", "">>
            \o Flatten([b \in 1..Len(result.bannerStructure) |->
                          BannerAnswerCells(result.bannerStructure[b])]) >>

\* the fields the RANKING ANALYSIS section of the percentage sheet maps over
RankingSectionFields == {"rank1", "rank2", "rank3", "rank1Plus2", "rank1Plus2Plus3"}

\* result.rankingCalculations.<field>.map(...) throws a TypeError when the
\* field is undefined
RankingSectionThrows(result) ==
  /\ result.rankingCalculations.present
  /\ ~(RankingSectionFields \subseteq DOMAIN result.rankingCalculations)

\* createFormattedSheet(results, 'absolute') and then (results, 'percentage')
exportToExcelWithIndex(exportedResults) ==
  [done          |-> TRUE,
   threw         |-> \E k \in 1..Len(exportedResults) : RankingSectionThrows(exportedResults[k]),
   bannerHeaders |-> [k \in 1..Len(exportedResults) |-> createBannerHeaders(exportedResults[k])]]

\* handleExport of App: the results of the run are exported
handleExport ==
  /\ pc = "done"
  /\ Len(results) # 0
  /\ exported' = exportToExcelWithIndex(results)
  /\ pc' = "exported"
  /\ UNCHANGED <<engineVars, coderVars, typeVars, groupVars, optionVars, clusterVars, appVars>>

Next ==
  \/ GenerateCrossTabs
  \/ handleExport

Spec == Init /\ [][Next]_vars

(***************************************************************************)
(* Properties of applyFilters (SpecFilter)                                 *)
(***************************************************************************)

\* the indices of the rows of `data` that every simple filter accepts
AcceptedRows ==
  { i \in 1..Len(data.rows) :
      \A id \in DOMAIN config.filters :
        FilterPasses(data.headers, data.rows[i], config.filters[id]) }

\* C2: applyFilters returns exactly the rows that every configured simple
\* filter accepts, in their original relative order; with no simple filter
\* every row is kept; the nested filter groups of the config have no say.
C2_FilterKeepsExactly ==
  pc = "flt_done" =>
    /\ filteredData.headers = data.headers
    /\ Len(filteredData.rows) = Cardinality(AcceptedRows)
    /\ \A k \in 1..Len(filteredData.rows) :
         \* the k-th accepted row, counting in the order of the data
         filteredData.rows[k] =
           data.rows[CHOOSE i \in AcceptedRows :
                       Cardinality({ j \in AcceptedRows : j < i }) = k - 1]
    /\ (DOMAIN config.filters = {} => filteredData.rows = data.rows)

\* C2 witness: two simple filters drop the first row and keep the second,
\* a row of Rome, while a nested group asking for Oslo is configured.
C2_Witness ==
  /\ pc = "flt_done"
  /\ config.nestedFilters = <<OsloGroup>>
  /\ DOMAIN config.filters = {"filter_1", "filter_2"}
  /\ config.filters["filter_1"] = Flt("Age", "greater_than", "6", NoSecond)
  /\ config.filters["filter_2"] = Flt("City", "equals", "ROME", NoSecond)
  /\ data.rows = << <<"5", "rome ">>, <<" 7 ", "Rome">> >>
  /\ filteredData.rows = << <<" 7 ", "Rome">> >>

\* "parses as a number" as the claim C10 has it: a blank is not a number
ParsesAsNumber(s) == trim(s) # "" /\ ~isNaN(Number(s))

\* C10: a greater_than, less_than or in_range filter excludes every row whose
\* cell, or one of whose operands, does not parse as a number (for in_range
\* also a missing, blank or non-numeric secondValue).
C10_NumericFiltersRejectNonNumbers ==
  pc = "flt_done" =>
    \A id \in DOMAIN config.filters : \A i \in 1..Len(data.rows) :
      LET f    == config.filters[id]
          col  == indexOf(data.headers, f.column)
      IN (/\ f.operator \in {"greater_than", "less_than", "in_range"}
          /\ col # 0
          /\ \/ ~ParsesAsNumber(data.rows[i][col])
             \/ ~ParsesAsNumber(f.value)
             \/ (f.operator = "in_range" /\ ~(f.secondValue.present /\ ParsesAsNumber(f.secondValue.v))))
         => data.rows[i] \notin Range(filteredData.rows)

\* C11: a single is_empty filter keeps exactly the rows whose cell in the
\* filter's column is blank, 'null' or 'undefined', and a single is_not_empty
\* filter keeps exactly the other rows.
C11_EmptinessFilters ==
  pc = "flt_done" =>
    \A id \in DOMAIN config.filters :
      LET f   == config.filters[id]
          col == indexOf(data.headers, f.column)
          IsEmptyCell(row) == toLowerCase(trim(row[col])) \in {"", "null", "undefined"}
          Wanted(row) == IsEmptyCell(row) = (f.operator = "is_empty")
      IN (/\ DOMAIN config.filters = {id}
          /\ f.operator \in {"is_empty", "is_not_empty"}
          /\ col # 0)
         => filteredData.rows = SelectSeq(data.rows, Wanted)

(***************************************************************************)
(* Properties of statisticalTests.ts (SpecZ, SpecSig)                      *)
(***************************************************************************)

\* C7: zTestForProportions returns not-significant with pValue 1 and
\* zScore 0 when a total is 0 or the standard error is 0 (the pooled
\* proportion is 0 or 1), and not-significant for identical proportions.
C7_ZTestDegenerate ==
  pc = "z_done" =>
    LET count1 == zArgs[1]
        total1 == zArgs[2]
        count2 == zArgs[3]
        total2 == zArgs[4]
        pooledIsZeroOrOne ==
          total1 + total2 > 0 /\
          (count1 + count2 = 0 \/ count1 + count2 = total1 + total2)
    IN /\ (total1 = 0 \/ total2 = 0 \/ pooledIsZeroOrOne) =>
            /\ zResult.isSignificant = FALSE
            /\ zResult.pValue = LiteralOne
            /\ zResult.zScore = ZeroScore
       /\ (count1 = count2 /\ total1 = total2) => zResult.isSignificant = FALSE

\* C7 witness: both totals positive and the standard error 0 (3 of 3 against
\* 2 of 2), answered with the not-significant result.
C7_Witness ==
  /\ pc = "z_done"
  /\ zArgs = <<3, 3, 2, 2>>
  /\ zResult = NotSignificant

\* C6: the flag matrix has the shape of the input; column 0 is ""; another
\* cell is "*" when its proportion tests significantly higher than the
\* total's, the arrow U+2193 when significantly lower, "" otherwise; and no
\* other value occurs.
C6_FlagsAreStarArrowOrEmpty ==
  pc = "sig_done" =>
    /\ Len(significanceFlags) = Len(absoluteData)
    /\ \A r \in 1..Len(absoluteData) :
         /\ Len(significanceFlags[r]) = Len(absoluteData[r])
         /\ \A c \in 1..Len(absoluteData[r]) :
              LET t == zTestForProportions(absoluteData[r][c], baseValues[c],
                                           absoluteData[r][1], baseValues[1])
              IN /\ significanceFlags[r][c] \in {"", Star, DownArrow}
                 /\ significanceFlags[r][c] =
                      (IF c = 1 \/ ~t.isSignificant THEN ""
                       ELSE IF t.comparisonType = "higher" THEN Star ELSE DownArrow)

(***************************************************************************)
(* Properties of generateCrossTabs (Spec)                                  *)
(***************************************************************************)

\* the rows the cross-tabs are computed over
KeptRows == applyFilters(data, config.filters).rows

\* the trimmed cell of column `col` of a row
RawValue(row, col) == trim(row[indexOf(data.headers, col)])

\* <<banner variable, banner value>> of the columns 2, 3, ... of a result
\* over `rows`
BannerColumns(rows) ==
  BannerCols(Array([i \in 1..Len(rows) |-> RowData(data.headers, rows[i])]),
             config.bannerVariables)

\* a row belongs to column c: every row to the Total column, to a banner
\* column the rows with its banner value
InColumn(row, cols, c) == c = 1 \/ RawValue(row, cols[c - 1][1]) = cols[c - 1][2]

\* C1: every result has absolute, percentage and significanceFlags of the
\* same dimensions, one row label per matrix row, and as many headers and
\* base values as every matrix row has cells.
C1_ShapeInvariant ==
  pc = "done" =>
    \A k \in 1..Len(results) :
      LET r == results[k]
      IN /\ Len(r.percentage) = Len(r.absolute)
         /\ Len(r.significanceFlags) = Len(r.absolute)
         /\ Len(r.rowLabels) = Len(r.absolute)
         /\ Len(r.headers) = Len(r.baseValues)
         /\ \A i \in 1..Len(r.absolute) :
              /\ Len(r.absolute[i]) = Len(r.headers)
              /\ Len(r.percentage[i]) = Len(r.headers)
              /\ Len(r.significanceFlags[i]) = Len(r.headers)

\* C1 witness: a ranking battery crossed with a banner of two answers, whose
\* table has the five sections of two options each.
C1_Witness ==
  /\ pc = "done"
  /\ Len(results) = 1
  /\ results[1].questionType = "ranking"
  /\ results[1].headers = <<"Total", "North", "South">>
  /\ Len(results[1].absolute) = 15

\* the results of createRegularCrossTab for a plain column: those of the
\* table variables that are columns and no multi-select group
IsPlainResult(r, tv) ==
  /\ tv \in Range(data.headers)
  /\ tv \notin DOMAIN config.multiSelectGroups
  /\ r.questionType \notin {"multiple-choice", "ranking", "open-ended"}
  /\ r.name = tv \o "_by_" \o join(config.bannerVariables, "_")

\* C3: a plain column's table has one row per distinct non-blank value, in
\* ascending order, then one Total row equal to baseValues; baseValues[c]
\* counts the rows of column c with a non-blank value; the category counts of
\* every column add up to its base.
C3_RegularRowsAndBases ==
  pc = "done" =>
    \A k \in 1..Len(results) : \A tv \in Range(config.tableVariables) :
      IsPlainResult(results[k], tv) =>
        LET r        == results[k]
            rows     == KeptRows
            cols     == BannerColumns(rows)
            answered == { i \in 1..Len(rows) : NonBlank(RawValue(rows[i], tv)) }
            values   == { RawValue(rows[i], tv) : i \in answered }
            n        == Len(r.rowLabels) - 1
        IN /\ n = Cardinality(values)
           /\ { r.rowLabels[j] : j \in 1..n } = values
           /\ \A j \in 1..(n - 1) : StrLess(r.rowLabels[j], r.rowLabels[j + 1])
           /\ r.rowLabels[n + 1] = "Total"
           /\ r.absolute[n + 1] = r.baseValues
           /\ \A c \in 1..Len(r.headers) :
                /\ r.baseValues[c] =
                     Cardinality({ i \in answered : InColumn(rows[i], cols, c) })
                /\ SumSeq([j \in 1..n |-> r.absolute[j][c]]) = r.baseValues[c]

\* C3 witness: three answered rows, one of them with blanks around the value,
\* give the rows Female, Male and Total over the banner Region.
C3_Witness ==
  /\ pc = "done"
  /\ data.rows = << <<"Male", "North", "East">>, <<"Female", "South", "North">>,
                    <<" Male ", "South", "">> >>
  /\ config.bannerVariables = <<"Region">>
  /\ config.filters = EmptyMap
  /\ Len(results) = 1
  /\ results[1].rowLabels = <<"Female", "Male", "Total">>
  /\ results[1].absolute = << <<1, 0, 1>>, <<2, 1, 1>>, <<3, 1, 2>> >>
  /\ results[1].baseValues = <<3, 1, 2>>

\* the battery columns of group g that are columns of the data, in order
PresentColumns(g) ==
  SelectSeq(config.multiSelectGroups[g], LAMBDA col : col \in Range(data.headers))

\* a row selects the battery column col
Selects(row, col) == isSelected(RowData(data.headers, row), col)

\* p% is count/base*100 rounded to the nearest integer, halves upwards
IsRoundedPct(cell, count, base) ==
  \E p \in 0..100 :
    /\ 2 * base * p <= 200 * count + base
    /\ 200 * count + base < 2 * base * (p + 1)
    /\ cell = IntToStr(p) \o "%"

\* C4: in a multi-select table on a non-empty dataset, baseValues[c] counts
\* the rows of column c that select at least one battery column; an option
\* row counts the rows of column c selecting its column, never more than the
\* base; its percentage is the rounded count/base*100; the last row, NET: Any
\* Response, equals the bases.
C4_MultiSelectBases ==
  pc = "done" =>
    \A k \in 1..Len(results) : \A g \in DOMAIN config.multiSelectGroups :
      (/\ results[k].questionType = "multiple-choice"
       /\ results[k].name = g \o "_by_" \o join(config.bannerVariables, "_")
       /\ Len(KeptRows) > 0) =>
        LET r       == results[k]
            rows    == KeptRows
            cols    == BannerColumns(rows)
            options == PresentColumns(g)
            any     == { i \in 1..Len(rows) :
                           \E j \in 1..Len(config.multiSelectGroups[g]) :
                             Selects(rows[i], config.multiSelectGroups[g][j]) }
            n       == Len(options)
        IN /\ Len(r.absolute) = n + 1
           /\ r.rowLabels[n + 1] = "NET: Any Response"
           /\ r.absolute[n + 1] = r.baseValues
           /\ \A c \in 1..Len(r.headers) :
                /\ r.baseValues[c] =
                     Cardinality({ i \in any : InColumn(rows[i], cols, c) })
                /\ \A j \in 1..n :
                     /\ r.absolute[j][c] =
                          Cardinality({ i \in 1..Len(rows) :
                                          /\ Selects(rows[i], options[j])
                                          /\ InColumn(rows[i], cols, c) })
                     /\ r.absolute[j][c] <= r.baseValues[c]
                     /\ r.baseValues[c] > 0 =>
                          IsRoundedPct(r.percentage[j][c], r.absolute[j][c],
                                       r.baseValues[c])

\* C4 witness: Scenario B, ten rows that each select a column, the first
\* column selected by seven of them: base 10 and 70%.
C4_Witness ==
  /\ pc = "done"
  /\ data = ScenarioBData
  /\ Len(results) = 1
  /\ results[1].baseValues = <<10>>
  /\ results[1].absolute[1] = <<7>>
  /\ results[1].percentage[1] = <<"70%">>

\* the numbers of a matrix of percentage strings
PctNumbers(percentage) ==
  [i \in 1..Len(percentage) |->
     [c \in 1..Len(percentage[i]) |-> parseInt(replaceFirst(percentage[i][c], "%", "")).v]]

\* C5 as stated: Scenario A gives headers Total, North, South, the rows Male
\* then Female with absolute [[60,30,30],[40,10,30]] and percentages
\* [[60,75,50],[40,25,50]], and no further rows.
C5_ScenarioA_AsStated ==
  (pc = "done" /\ data = ScenarioAData) =>
    /\ Len(results) = 1
    /\ results[1].headers = <<"Total", "North", "South">>
    /\ results[1].absolute = << <<60, 30, 30>>, <<40, 10, 30>> >>
    /\ PctNumbers(results[1].percentage) = << <<60, 75, 50>>, <<40, 25, 50>> >>

\* C5: Scenario A gives headers Total, North, South and the rows Female,
\* Male, Total (categories ascending, then the Total row) with absolute
\* [[40,10,30],[60,30,30],[100,40,60]] and percentages
\* [[40,25,50],[60,75,50],[100,100,100]], every percentage written with %.
C5_ScenarioA ==
  (pc = "done" /\ data = ScenarioAData) =>
    /\ Len(results) = 1
    /\ results[1].headers = <<"Total", "North", "South">>
    /\ results[1].rowLabels = <<"Female", "Male", "Total">>
    /\ results[1].absolute = << <<40, 10, 30>>, <<60, 30, 30>>, <<100, 40, 60>> >>
    /\ results[1].percentage = << <<"40%", "25%", "50%">>, <<"60%", "75%", "50%">>,
                                  <<"100%", "100%", "100%">> >>
    /\ results[1].baseValues = <<100, 40, 60>>

\* C5 witness: the run on Scenario A has returned its one table.
C5_Witness ==
  /\ pc = "done"
  /\ data = ScenarioAData
  /\ config = ScenarioAConfig
  /\ Len(results) = 1
  /\ results[1].name = "Gender_by_Region"
  /\ Len(results[1].absolute) = 3

\* C8: every percentage cell of a column whose base is 0 reads 0% (the cells
\* of a separator row, which are empty, carry no percentage).
C8_ZeroBaseIsZeroPercent ==
  pc = "done" =>
    \A k \in 1..Len(results) :
      \A c \in 1..Len(results[k].baseValues) :
        results[k].baseValues[c] = 0 =>
          \A i \in 1..Len(results[k].percentage) :
            results[k].percentage[i][c] \in {"0%", ""}

\* the sum of the category percentages of column c of a plain result
CategoryPctSum(r, c) ==
  SumSeq([j \in 1..(Len(r.rowLabels) - 1) |->
            parseInt(replaceFirst(r.percentage[j][c], "%", "")).v])

\* C9: a run over plain columns does not throw, and the validationErrors of
\* a single-choice or binary table hold one warning for every column whose
\* category percentages sum to more than 5 away from 100, naming the column
\* and the sum, and nothing else.
C9_PctSumWarnings ==
  pc = "done" =>
    /\ (DOMAIN config.multiSelectGroups = {} => ~threw)
    /\ \A k \in 1..Len(results) : \A tv \in Range(config.tableVariables) :
         (IsPlainResult(results[k], tv)
          /\ results[k].questionType \in {"single-choice", "binary"}) =>
           LET r   == results[k]
               bad == { c \in 1..Len(r.headers) : Abs(CategoryPctSum(r, c) - 100) > 5 }
           IN /\ \A c \in bad :
                   PctSumWarning(r.headers[c], CategoryPctSum(r, c))
                     \in Range(r.validationErrors)
              /\ \A w \in Range(r.validationErrors) :
                   \E c \in bad : w = PctSumWarning(r.headers[c], CategoryPctSum(r, c))
              /\ Len(r.validationErrors) = Cardinality(bad)

\* C9 witness: nobody of North answered, so the percentages of the column
\* North sum to 0 and the table carries the warning for North.
C9_Witness ==
  /\ pc = "done"
  /\ ~threw
  /\ data.rows = << <<"", "North", "East">>, <<"Female", "South", "North">> >>
  /\ config.bannerVariables = <<"Region">>
  /\ config.questionTypes = EmptyMap
  /\ Len(results) = 1
  /\ results[1].questionType = "single-choice"
  /\ results[1].baseValues = <<1, 0, 1>>
  /\ results[1].validationErrors = <<PctSumWarning("North", 0)>>

(***************************************************************************)
(* Behaviour of generateCrossTabs on empty data and on warnings (Spec)     *)
(***************************************************************************)

\* C12: when the dataset has no rows, or the filters keep none, the run does
\* not throw, and every result it yields carries a validation warning.
C12_EmptyDataNeverThrows ==
  (pc = "done" /\ KeptRows = <<>>) =>
    /\ ~threw
    /\ \A k \in 1..Len(results) : results[k].validationErrors # <<>>

\* C13: when no kept row has a valid value in a configured plain column, the
\* warning about it ("No valid data found ...", for an open-ended column "No
\* valid responses found ...") is in the validationErrors of a result.
C13_NoDataWarningReachesCaller ==
  (pc = "done" /\ ~threw) =>
    \A t \in 1..Len(config.tableVariables) :
      LET tv == config.tableVariables[t]
          isPlain ==
            /\ tv \in Range(data.headers)
            /\ tv \notin DOMAIN config.multiSelectGroups
            /\ tv \notin DOMAIN config.customVariables
            /\ \A rank \in Range(detectRankQuestionStructure(data.headers,
                                                             config.questionTypes)) :
                 rank.questionName # tv
          warning ==
            IF GetOr(config.questionTypes, tv, "single-choice") = "open-ended"
            THEN "No valid responses found for open-ended question: " \o tv
            ELSE "No valid data found for variable: " \o tv
      IN (isPlain /\ \A i \in 1..Len(KeptRows) : ~NonBlank(RawValue(KeptRows[i], tv)))
         => \E k \in 1..Len(results) : warning \in Range(results[k].validationErrors)

\* C14: a run whose table variables include a custom variable signals it to
\* the caller: the run throws, or a result for that variable carries a
\* validation warning.
C14_CustomVariableIsSignalled ==
  pc = "done" =>
    \A t \in 1..Len(config.tableVariables) :
      LET tv == config.tableVariables[t]
      IN (tv \in DOMAIN config.customVariables /\ tv \notin DOMAIN config.multiSelectGroups)
         => \/ threw
            \/ \E k \in 1..Len(results) :
                 /\ results[k].displayName = GetOr(config.tableNames, tv, tv)
                 /\ results[k].validationErrors # <<>>

\* C15: in Scenario C (three options, six columns all typed ranking under one
\* question root, rank suffixes _Rank1 and _Rank2) detectRankQuestionStructure
\* returns exactly one structure, with maxRanks = 2 and the three options in
\* header order.
C15_ScenarioCStructure ==
  (pc = "done" /\ data = ScenarioCData /\ config = ScenarioCConfig) =>
    \E structures \in {detectRankQuestionStructure(data.headers, config.questionTypes)} :
      /\ Len(structures) = 1
      /\ structures[1].maxRanks = 2
      /\ structures[1].options = <<"Price", "Quality", "Service">>

(***************************************************************************)
(* OpenEndCoder: coding of free-text responses into categories             *)
(*                                                                         *)
(* A category is modelled by its id, name, keywords, sampleResponses and   *)
(* responseCount; a number the code computes in floating point is kept as  *)
(* a fraction [num, den] when it is rational, and as its kind otherwise.   *)
(***************************************************************************)

StopWords ==
  { "the", "a", "an", "and", "or", "but", "in", "on", "at", "to", "for", "of", "with", "by",
    "is", "are", "was", "were", "be", "been", "have", "has", "had", "do", "does", "did",
    "will", "would", "could", "should", "may", "might", "can", "this", "that", "these",
    "those" }

\* \w of a regular expression
IsWordChar(c) ==
  \/ IsDigit(c)
  \/ c = "_"
  \/ IndexOfChar(c, Letters.upper) > 0
  \/ IndexOfChar(c, Letters.lower) > 0

\* the last position of the run of word characters that starts at i
RunEnd(s, i) ==
  CHOOSE j \in i..Len(s) :
    /\ \A k \in i..j : IsWordChar(CharAt(s, k))
    /\ ~IsWordChar(CharAt(s, j + 1))

\* the numbers of a finite set, ascending
SortNats(S) ==
  Array([k \in 1..Cardinality(S) |-> CHOOSE x \in S : Cardinality({ y \in S : y < x }) = k - 1])

RunsFrom(s, starts) == Array([k \in 1..Len(starts) |-> Slice(s, starts[k], RunEnd(s, starts[k]))])

\* s.replace(/[^\w\s]/g, ' ').split(/\s+/) without the empty strings: the
\* maximal runs of word characters of s, in order
WordRuns(s) ==
  RunsFrom(s, SortNats({ i \in 1..Len(s) :
                           IsWordChar(CharAt(s, i)) /\ ~IsWordChar(CharAt(s, i - 1)) }))

tokenize(text) ==
  SelectSeq(WordRuns(toLowerCase(text)), LAMBDA word : Len(word) > 2 /\ word \notin StopWords)

\* items are { text, originalIndex } with the 0-based index of the input
preprocessResponses(rs, st) ==
  SelectSeq([i \in 1..Len(rs) |-> [text |-> trim(rs[i]), originalIndex |-> i - 1]],
            LAMBDA item :
              /\ item.text \notin {"", "null", "undefined"}
              /\ ~(st.excludeShortResponses /\ Len(item.text) < st.minResponseLength))

Texts(items) == [i \in 1..Len(items) |-> items[i].text]

CountIn(seq, x) == Cardinality({ i \in 1..Len(seq) : seq[i] = x })

\* seq.slice(0, n)
FirstN(seq, n) == SubSeq(seq, 1, IF Len(seq) < n THEN Len(seq) ELSE n)

\* seq sorted by descending keys[i] with a stable sort
SortDescBy(seq, keys) ==
  Array([k \in 1..Len(seq) |->
           seq[CHOOSE i \in 1..Len(seq) :
                 Cardinality({ j \in 1..Len(seq) :
                                 keys[j] > keys[i] \/ (keys[j] = keys[i] /\ j < i) }) = k - 1]])

\* words.slice(i, i + n).join(' ') for every i
NGrams(words, n) == [i \in 1..(Len(words) - n + 1) |-> join(SubSeq(words, i, i + n - 1), " ")]

GramsOf(words) == NGrams(words, 1) \o NGrams(words, 2) \o NGrams(words, 3)

\* the phrases of the Map in insertion order with their frequencies
PhraseEntries(grams, distinct) ==
  [k \in 1..Len(distinct) |-> [phrase |-> distinct[k], frequency |-> CountIn(grams, distinct[k])]]

FrequentFirst(entries) ==
  FirstN(SortDescBy(entries, [k \in 1..Len(entries) |-> entries[k].frequency]), 50)

GramsOfTexts(texts) == Flatten([t \in 1..Len(texts) |-> GramsOf(tokenize(texts[t]))])

PhrasesOfGrams(grams) ==
  FrequentFirst(SelectSeq(PhraseEntries(grams, DedupInOrder(grams, {})),
                          LAMBDA item : item.frequency >= 2))

extractKeyPhrases(texts) == PhrasesOfGrams(GramsOfTexts(texts))

themeGroups ==
  << [name |-> "Quality & Performance",
      keywords |-> <<"quality", "performance", "good", "bad", "excellent", "poor", "reliable",
                     "durable", "effective">>],
     [name |-> "Price & Value",
      keywords |-> <<"price", "cost", "expensive", "cheap", "affordable", "value", "money",
                     "budget", "worth">>],
     [name |-> "Customer Service",
      keywords |-> <<"service", "staff", "customer", "support", "help", "friendly", "rude",
                     "professional", "helpful">>],
     [name |-> "Speed & Efficiency",
      keywords |-> <<"fast", "slow", "quick", "time", "wait", "delay", "speed", "efficient",
                     "prompt", "immediate">>],
     [name |-> "Convenience & Ease",
      keywords |-> <<"convenient", "easy", "simple", "difficult", "complicated",
                     "user-friendly", "accessible">>],
     [name |-> "Location & Accessibility",
      keywords |-> <<"location", "close", "near", "far", "parking", "distance", "accessible",
                     "convenient">>],
     [name |-> "Product Features",
      keywords |-> <<"feature", "function", "design", "style", "variety", "selection",
                     "options", "capability">>],
     [name |-> "Communication",
      keywords |-> <<"communication", "information", "clear", "confusing", "explanation",
                     "instructions">>] >>

\* the summed frequency of the phrases that contain a keyword of the theme
MatchingFrequency(theme, phrases) ==
  SumSeq([p \in 1..Len(phrases) |->
            IF \E k \in 1..Len(theme.keywords) : includes(phrases[p].phrase, theme.keywords[k])
            THEN phrases[p].frequency ELSE 0])

\* confidence = Math.min(totalFrequency / phrases.length, 1)
ThemeWithConfidence(theme, total, n) ==
  [name |-> theme.name, keywords |-> theme.keywords,
   confidence |-> [num |-> IF total < n THEN total ELSE n, den |-> n]]

IdentifiedThemes(phrases) ==
  Flatten([g \in 1..Len(themeGroups) |->
             IF MatchingFrequency(themeGroups[g], phrases) > 0
             THEN <<ThemeWithConfidence(themeGroups[g],
                                        MatchingFrequency(themeGroups[g], phrases),
                                        Len(phrases))>>
             ELSE <<>>])

SortByConfidence(identified) ==
  SortDescBy(identified, [k \in 1..Len(identified) |-> identified[k].confidence.num])

identifyThemes(phrases) == SortByConfidence(IdentifiedThemes(phrases))

matchesTheme(text, keywords) ==
  \E k \in 1..Len(keywords) : includes(toLowerCase(text), toLowerCase(keywords[k]))

Category(id, name, keywords, members) ==
  [id |-> id, name |-> name, keywords |-> keywords,
   sampleResponses |-> FirstN(Texts(members), 5), responseCount |-> Len(members)]

ThemeCategory(items, theme, index, st) ==
  IF Len(SelectSeq(items, LAMBDA r : matchesTheme(r.text, theme.keywords))) >= st.minCategorySize
  THEN <<Category("cat_" \o NatToStr(index), theme.name, theme.keywords,
                  SelectSeq(items, LAMBDA r : matchesTheme(r.text, theme.keywords)))>>
  ELSE <<>>

ThemeCategories(items, themes, st) ==
  Flatten([t \in 1..Len(themes) |-> ThemeCategory(items, themes[t], t - 1, st)])

Uncategorized(items, categories) ==
  SelectSeq(items, LAMBDA r :
    ~\E c \in 1..Len(categories) : matchesTheme(r.text, categories[c].keywords))

WithOther(items, categories, st) ==
  categories \o
    (IF Len(Uncategorized(items, categories)) >= st.minCategorySize
     THEN <<Category("cat_other", "Other/Miscellaneous", <<>>, Uncategorized(items, categories))>>
     ELSE <<>>)

keywordBasedClustering(items, st) ==
  WithOther(items, ThemeCategories(items, identifyThemes(extractKeyPhrases(Texts(items))), st), st)

TokensOfTexts(texts) == Flatten([t \in 1..Len(texts) |-> tokenize(texts[t])])

\* count >= 2 && count <= documents.length * 0.8, then sort()
FrequentWords(tokens, nDocuments) ==
  SortStrings({ w \in Range(tokens) :
                  CountIn(tokens, w) >= 2 /\ 10 * CountIn(tokens, w) <= 8 * nDocuments })

buildVocabulary(documents) == FrequentWords(TokensOfTexts(documents), Len(documents))

\* the kind of tf * idf for one document and term: tf = count / words.length
\* is NaN for a document without words, idf = Math.log(n / (df + 1)) has the
\* sign of n - (df + 1)
TfIdfKind(words, term, df, n) ==
  IF Len(words) = 0 THEN "nan"
  ELSE IF CountIn(words, term) = 0 \/ n = df + 1 THEN "zero"
  ELSE IF n > df + 1 THEN "pos" ELSE "neg"

DocumentFrequency(documents, term) ==
  Cardinality({ d \in 1..Len(documents) : term \in Range(tokenize(documents[d])) })

calculateTFIDF(documents, vocabulary) ==
  Array([d \in 1..Len(documents) |->
           Array([t \in 1..Len(vocabulary) |->
                    TfIdfKind(tokenize(documents[d]), vocabulary[t],
                              DocumentFrequency(documents, vocabulary[t]), Len(documents))])])

\* norm > 0 for a vector of kinds
HasMagnitude(vec) ==
  /\ \A i \in 1..Len(vec) : vec[i] # "nan"
  /\ \E i \in 1..Len(vec) : vec[i] # "zero"

\* "zero" when the similarity is exactly 0 (magnitude > 0 fails, or no term
\* is non-zero in both vectors), "unknown" for any other number
cosineSimilarity(vec1, vec2) ==
  IF ~(HasMagnitude(vec1) /\ HasMagnitude(vec2)) THEN "zero"
  ELSE IF \A i \in 1..Len(vec1) : vec1[i] = "zero" \/ vec2[i] = "zero" THEN "zero"
  ELSE "unknown"

\* clusters hold the positions of their responses in allResponses; "one" is
\* the distance 1 - 0 / count, "unknown" any other number
calculateClusterDistance(cluster1, cluster2, tfidfMatrix) ==
  IF \A a \in Range(cluster1), b \in Range(cluster2) :
       cosineSimilarity(tfidfMatrix[a], tfidfMatrix[b]) = "zero"
  THEN "one" ELSE "unknown"

\* clusters[i] = [...clusters[i], ...clusters[j]]; clusters.splice(j, 1)
MergeClusters(clusters, i, j) ==
  [k \in 1..(Len(clusters) - 1) |->
     IF k = i THEN clusters[i] \o clusters[j]
     ELSE IF k < j THEN clusters[k] ELSE clusters[k + 1]]

ClusterPairs(clusters) == { p \in (1..Len(clusters)) \X (1..Len(clusters)) : p[1] < p[2] }

\* The lists of clusters the while loop can end with.  When every distance is
\* exactly 1 the first pair is the one merged and the loop breaks iff
\* 1 > similarityThreshold; a distance that is not exactly 1 depends on
\* floating-point values the model does not compute, and then every pair and
\* the break are possible.
RECURSIVE MergeOutcomes(_, _, _)
MergeOutcomes(clusters, tfidfMatrix, st) ==
  IF Len(clusters) <= st.maxCategories \/ Len(clusters) < 2 THEN {clusters}
  ELSE IF \A p \in ClusterPairs(clusters) :
            calculateClusterDistance(clusters[p[1]], clusters[p[2]], tfidfMatrix) = "one"
  THEN IF st.similarityThreshold.den > st.similarityThreshold.num THEN {clusters}
       ELSE MergeOutcomes(MergeClusters(clusters, 1, 2), tfidfMatrix, st)
  ELSE {clusters} \cup
       UNION { MergeOutcomes(MergeClusters(clusters, p[1], p[2]), tfidfMatrix, st) :
                 p \in ClusterPairs(clusters) }

hierarchicalClustering(tfidfMatrix, items, st) ==
  { SelectSeq(clusters, LAMBDA cluster : Len(cluster) >= st.minCategorySize) :
      clusters \in MergeOutcomes([i \in 1..Len(items) |-> <<i>>], tfidfMatrix, st) }

KeywordsByCount(words, distinct) ==
  FirstN(SortDescBy(distinct, [k \in 1..Len(distinct) |-> CountIn(words, distinct[k])]), 10)

FrequentDistinct(words) ==
  SelectSeq(DedupInOrder(words, {}), LAMBDA word : CountIn(words, word) >= 2)

extractClusterKeywords(texts) ==
  KeywordsByCount(TokensOfTexts(texts), FrequentDistinct(TokensOfTexts(texts)))

themeMap ==
  << <<"quality", "Quality & Performance">>, <<"price", "Price & Value">>,
     <<"service", "Customer Service">>, <<"fast", "Speed & Efficiency">>,
     <<"location", "Location & Access">>, <<"easy", "Convenience & Ease">> >>

\* k.charAt(0).toUpperCase() + k.slice(1)
Capitalize(k) ==
  (IF IndexOfChar(CharAt(k, 1), Letters.lower) > 0
   THEN CharAt(Letters.upper, IndexOfChar(CharAt(k, 1), Letters.lower))
   ELSE CharAt(k, 1)) \o Slice(k, 2, Len(k))

ThemeKeyHits(topKeywords) ==
  SelectSeq(themeMap, LAMBDA entry :
    \E k \in 1..Len(topKeywords) : includes(topKeywords[k], entry[1]))

NameFromTop(topKeywords) ==
  IF ThemeKeyHits(topKeywords) # <<>> THEN ThemeKeyHits(topKeywords)[1][2]
  ELSE join([k \in 1..Len(topKeywords) |-> Capitalize(topKeywords[k])], " & ")

generateCategoryName(keywords) ==
  IF Len(keywords) = 0 THEN "Miscellaneous" ELSE NameFromTop(FirstN(keywords, 3))

ClusterCategory(index, keywords, members) ==
  Category("semantic_cat_" \o NatToStr(index), generateCategoryName(keywords), keywords, members)

clustersToCategories(clusters, items) ==
  [c \in 1..Len(clusters) |->
     ClusterCategory(c - 1,
                     extractClusterKeywords([m \in 1..Len(clusters[c]) |-> items[clusters[c][m]].text]),
                     [m \in 1..Len(clusters[c]) |-> items[clusters[c][m]]])]

semanticClustering(items, st) ==
  { clustersToCategories(clusters, items) :
      clusters \in hierarchicalClustering(
                     calculateTFIDF(Texts(items), buildVocabulary(Texts(items))), items, st) }

\* score / category.keywords.length as a fraction, 0 for a category without
\* keywords
calculateCategoryScore(text, category) ==
  IF Len(category.keywords) = 0 THEN [num |-> 0, den |-> 1]
  ELSE [num |-> Cardinality({ k \in 1..Len(category.keywords) :
                                includes(toLowerCase(text), toLowerCase(category.keywords[k])) }),
        den |-> Len(category.keywords)]

ScoreGreater(a, b) == a.num * b.den > b.num * a.den

\* the category the forEach ends with: the first one of the highest score
\* when that score exceeds 0, the last category otherwise
BestCategoryIndex(scores) ==
  IF \A c \in 1..Len(scores) : scores[c].num = 0 THEN Len(scores)
  ELSE CHOOSE c \in 1..Len(scores) :
         /\ \A j \in 1..Len(scores) : ~ScoreGreater(scores[j], scores[c])
         /\ \A j \in 1..(c - 1) : ScoreGreater(scores[c], scores[j])

CodedResponse(item, categories, scores, best) ==
  [id |-> "response_" \o NatToStr(item.originalIndex), text |-> item.text,
   categoryId |-> categories[best].id,
   confidence |-> IF scores[best].num = 0 THEN [num |-> 0, den |-> 1] ELSE scores[best],
   rowIndex |-> item.originalIndex]

ScoresOf(item, categories) ==
  Array([c \in 1..Len(categories) |-> calculateCategoryScore(item.text, categories[c])])

CodedWithScores(item, categories, scores) ==
  CodedResponse(item, categories, scores, BestCategoryIndex(scores))

\* With no category, bestCategory is undefined and reading bestCategory.id
\* throws for the first response.
assignResponsesToCategories(items, categories) ==
  IF items # <<>> /\ categories = <<>> THEN [threw |-> TRUE, responses |-> <<>>, categories |-> <<>>]
  ELSE [threw |-> FALSE,
        responses |-> Array([i \in 1..Len(items) |->
                               CodedWithScores(items[i], categories, ScoresOf(items[i], categories))]),
        categories |-> categories]

generateCategories(items, st) ==
  IF st.useSemanticClustering THEN semanticClustering(items, st)
  ELSE {keywordBasedClustering(items, st)}

CodingsOf(items, st) ==
  { assignResponsesToCategories(items, categories) : categories \in generateCategories(items, st) }

\* the results a call of codeResponses can settle with (threw: the promise
\* is rejected)
codeResponses(rs, st) == CodingsOf(preprocessResponses(rs, st), st)

(***************************************************************************)
(* OpenEndCoder on bounded batches of responses                            *)
(***************************************************************************)

MaxResponses == 3

MaxCategorySize == 2

ResponseTexts == {"", " ok ", "Good price", "good service"}

ResponseBatches == UNION { [1..n -> ResponseTexts] : n \in 0..MaxResponses }

\* createDefaultCodingSettings with the strategy, the sizes and the threshold
\* varied
CodingSettings ==
  { [minCategorySize |-> size, maxCategories |-> merging[1], similarityThreshold |-> merging[2],
     useSemanticClustering |-> semantic, excludeShortResponses |-> short,
     minResponseLength |-> 5] :
      size \in 0..MaxCategorySize,
      merging \in { <<20, [num |-> 1, den |-> 2]>>, <<1, [num |-> 1, den |-> 2]>>,
                    <<1, [num |-> 1, den |-> 1]>> },
      semantic \in BOOLEAN, short \in BOOLEAN }

CoderInit ==
  /\ pc = "oec_ready"
  /\ openEndResponses \in ResponseBatches
  /\ settings \in CodingSettings
  /\ coding = NoCoding
  /\ EngineIdle
  /\ TypeIdle /\ GroupsIdle /\ OptionsIdle /\ ExportIdle /\ ClusterIdle /\ AppIdle

\* one call of new OpenEndCoder(settings).codeResponses(responses, column)
CodeResponses ==
  /\ pc = "oec_ready"
  /\ \E out \in codeResponses(openEndResponses, settings) : coding' = out
  /\ pc' = "oec_done"
  /\ UNCHANGED <<openEndResponses, settings>>
  /\ UNCHANGED <<engineVars, typeVars, groupVars, optionVars, exportVars, clusterVars, appVars>>

SpecCoder == CoderInit /\ [][CodeResponses]_vars

\* C16: for every batch of responses and every settings value,
\* codeResponses completes, every returned response carries the id of a
\* category of the returned list, and every response that survives
\* preprocessing appears exactly once in the output.
C16_EveryResponseCoded ==
  pc = "oec_done" =>
    /\ ~coding.threw
    /\ \A r \in 1..Len(coding.responses) :
         \E c \in 1..Len(coding.categories) :
           coding.categories[c].id = coding.responses[r].categoryId
    /\ [r \in 1..Len(coding.responses) |-> coding.responses[r].rowIndex]
         = [i \in 1..Len(preprocessResponses(openEndResponses, settings)) |->
              preprocessResponses(openEndResponses, settings)[i].originalIndex]

(***************************************************************************)
(* analyzeQuestionType: the type of a column from its header and a sample  *)
(*                                                                         *)
(* A confidence is kept in hundredths.  Comparisons such as                *)
(* count > totalCount * 0.6 are done on integers (10 * count > 6 * total), *)
(* which agrees with the floating-point comparison on these sample sizes.  *)
(* hostDates is the set of sample values the host's Date constructor turns *)
(* into a date with a year in 1900 .. 2100: parsing a string that is not   *)
(* in a standard format is left to the implementation.                     *)
(***************************************************************************)

QuestionTypes ==
  { "single-choice", "multiple-choice", "ranking", "binary", "open-ended", "date", "numeric",
    "scale" }

\* pattern items: min .. max characters of a class ("d" digits, "s" blanks,
\* any other string the literal character itself)
Item(cls, min, max) == [cls |-> cls, min |-> min, max |-> max]

InClass(c, cls) == IF cls = "d" THEN IsDigit(c) ELSE IF cls = "s" THEN IsSpace(c) ELSE c = cls

\* does s from position pos on match the items exactly (^ ... $) ?
RECURSIVE MatchItems(_, _, _)
MatchItems(s, pos, items) ==
  IF items = <<>> THEN pos = Len(s) + 1
  ELSE \E n \in Head(items).min..Head(items).max :
         /\ pos + n - 1 <= Len(s)
         /\ \A k \in pos..(pos + n - 1) : InClass(CharAt(s, k), Head(items).cls)
         /\ MatchItems(s, pos + n, Tail(items))

IsoDate == <<Item("d", 4, 4), Item("-", 1, 1), Item("d", 2, 2), Item("-", 1, 1), Item("d", 2, 2)>>

SlashDate == <<Item("d", 2, 2), Item("/", 1, 1), Item("d", 2, 2), Item("/", 1, 1), Item("d", 4, 4)>>

ClockTime == <<Item("d", 2, 2), Item(":", 1, 1), Item("d", 2, 2)>>

Seconds == <<Item(":", 1, 1), Item("d", 2, 2)>>

Blanks == <<Item("s", 1, 100)>>

\* the eight regular expressions; a pattern ending in (:\d{2})? is listed
\* without and with the seconds
datePatterns ==
  << IsoDate,
     SlashDate,
     <<Item("d", 2, 2), Item("-", 1, 1), Item("d", 2, 2), Item("-", 1, 1), Item("d", 4, 4)>>,
     <<Item("d", 1, 2), Item("/", 1, 1), Item("d", 1, 2), Item("/", 1, 1), Item("d", 2, 4)>>,
     <<Item("d", 4, 4), Item("/", 1, 1), Item("d", 2, 2), Item("/", 1, 1), Item("d", 2, 2)>>,
     ClockTime, ClockTime \o Seconds,
     IsoDate \o Blanks \o ClockTime, IsoDate \o Blanks \o ClockTime \o Seconds,
     SlashDate \o Blanks \o ClockTime, SlashDate \o Blanks \o ClockTime \o Seconds >>

IsDateMatch(v, dates) ==
  \/ \E p \in 1..Len(datePatterns) : MatchItems(v, 1, datePatterns[p])
  \/ v \in dates

dateKeywords ==
  <<"date", "time", "when", "timestamp", "created", "updated", "birth", "start", "end",
    "schedule">>

binaryPatterns ==
  << <<"yes", "no">>, <<"y", "n">>, <<"true", "false">>, <<"1", "0">>, <<"male", "female">>,
     <<"agree", "disagree">>, <<"pass", "fail">>, <<"on", "off">>, <<"enabled", "disabled">>,
     <<"active", "inactive">> >>

scaleKeywords ==
  <<"rate", "rating", "scale", "score", "satisfaction", "likely", "likelihood", "agree",
    "important", "quality", "recommend", "how much", "extent", "strongly", "somewhat", "very",
    "extremely", "not at all">>

numericKeywords ==
  <<"age", "income", "salary", "price", "cost", "amount", "number", "count", "quantity">>

openEndedKeywords ==
  <<"comment", "feedback", "opinion", "explain", "describe", "why", "how", "other", "specify",
    "elaborate", "detail", "reason", "suggestion", "improvement", "additional",
    "anything else", "open", "text">>

rankingKeywords ==
  <<"rank", "ranking", "order", "priority", "preference", "choice", "1st", "2nd", "3rd",
    "_r1_", "_r2_", "_r3_", "_rank1", "_rank2", "_rank3">>

multiChoiceWords == {"1", "0", "yes", "no", "true", "false", "selected", "x"}

\* keywords.some(keyword => lowerHeader.includes(keyword))
HasKeyword(lowerHeader, keywords) ==
  \E k \in 1..Len(keywords) : includes(lowerHeader, keywords[k])

\* values.map(v => String(v || '').trim()).filter(...).slice(0, sampleSize)
CleanValues(values, sampleSize) ==
  FirstN(SelectSeq([i \in 1..Len(values) |-> trim(values[i])],
                   LAMBDA v : v \notin {"", "null", "undefined", "N/A", "n/a"}),
         sampleSize)

DateMatchCount(cleanValues, dates) ==
  Len(SelectSeq(cleanValues, LAMBDA v : IsDateMatch(v, dates)))

\* the integers among Number(v): numericValues
NumericValues(cleanValues) ==
  SelectSeq([i \in 1..Len(cleanValues) |-> Number(cleanValues[i])], LAMBDA n : ~isNaN(n))

MinOf(nums) == CHOOSE m \in Range(nums) : \A n \in Range(nums) : m.v <= n.v

MaxOf(nums) == CHOOSE m \in Range(nums) : \A n \in Range(nums) : m.v >= n.v

UniqueCount(cleanValues) == Cardinality(Range(cleanValues))

LowerValues(cleanValues) == { toLowerCase(v) : v \in Range(cleanValues) }

\* stage 1: dateMatches.length > totalCount * 0.6 && (hasDateKeywords || uniqueRatio > 0.7)
DateStage(lowerHeader, cleanValues, dates) ==
  /\ 10 * DateMatchCount(cleanValues, dates) > 6 * Len(cleanValues)
  /\ \/ HasKeyword(lowerHeader, dateKeywords)
     \/ 10 * UniqueCount(cleanValues) > 7 * Len(cleanValues)

\* stage 2
BinaryStage(lowerHeader, cleanValues) ==
  /\ UniqueCount(cleanValues) = 2
  /\ \/ \E p \in 1..Len(binaryPatterns) :
          Range(binaryPatterns[p]) \subseteq LowerValues(cleanValues)
     \/ includes(lowerHeader, "yes/no")
     \/ includes(lowerHeader, "true/false")

MostlyNumeric(nums, totalCount) == 10 * Len(nums) > 8 * totalCount

isTypicalScale(min, max) ==
  \/ min = 1 /\ max <= 10 /\ max - min <= 9
  \/ min = 0 /\ max <= 10 /\ max - min <= 10

\* stage 3
ScaleStage(lowerHeader, cleanValues, nums) ==
  /\ MostlyNumeric(nums, Len(cleanValues))
  /\ isTypicalScale(MinOf(nums).v, MaxOf(nums).v)
  /\ (HasKeyword(lowerHeader, scaleKeywords) \/ UniqueCount(cleanValues) <= 11)

\* stage 4
NumericStage(lowerHeader, cleanValues, nums) ==
  /\ MostlyNumeric(nums, Len(cleanValues))
  /\ \/ MaxOf(nums).v - MinOf(nums).v > 20
     \/ HasKeyword(lowerHeader, numericKeywords)
     \/ UniqueCount(cleanValues) > 15

TotalLength(cleanValues) == SumSeq([i \in 1..Len(cleanValues) |-> Len(cleanValues[i])])

LongResponses(cleanValues) == Len(SelectSeq(cleanValues, LAMBDA v : Len(v) > 20))

\* uniqueRatio > 0.7 && (avgLength > 15 || longResponseRatio > 0.3 || hasOpenEndedKeywords)
LooksOpenEnded(lowerHeader, cleanValues) ==
  /\ 10 * UniqueCount(cleanValues) > 7 * Len(cleanValues)
  /\ \/ TotalLength(cleanValues) > 15 * Len(cleanValues)
     \/ 10 * LongResponses(cleanValues) > 3 * Len(cleanValues)
     \/ HasKeyword(lowerHeader, openEndedKeywords)

\* stage 5
OpenEndedStage(lowerHeader, cleanValues, dates) ==
  /\ LooksOpenEnded(lowerHeader, cleanValues)
  /\ 10 * DateMatchCount(cleanValues, dates) < 3 * Len(cleanValues)

\* stage 6
RankingStage(lowerHeader, cleanValues, nums) ==
  /\ 10 * Len(nums) > 6 * Len(cleanValues)
  /\ \/ HasKeyword(lowerHeader, rankingKeywords)
     \/ MinOf(nums).v >= 1 /\ MaxOf(nums).v <= 10 /\ UniqueCount(cleanValues) <= 10

\* stage 7
MultipleChoiceStage(cleanValues) ==
  /\ 10 * Len(SelectSeq(cleanValues, LAMBDA v : toLowerCase(v) \in multiChoiceWords))
       > 8 * Len(cleanValues)
  /\ UniqueCount(cleanValues) <= 4

Analysis(type, confidence) == [type |-> type, confidence |-> confidence]

OpenEndedConfidence(lowerHeader, cleanValues) ==
  IF HasKeyword(lowerHeader, openEndedKeywords) THEN 90
  ELSE IF TotalLength(cleanValues) > 30 * Len(cleanValues) THEN 85 ELSE 75

\* stage 8 and the fallback: uniqueCount <= Math.min(20, totalCount * 0.5)
SingleChoice(cleanValues) ==
  IF UniqueCount(cleanValues) <= 20 /\ 2 * UniqueCount(cleanValues) <= Len(cleanValues)
  THEN Analysis("single-choice", IF UniqueCount(cleanValues) <= 10 THEN 70 ELSE 60)
  ELSE Analysis("single-choice", 40)

\* the stages from the ranking one on
CascadeFromRanking(lowerHeader, cleanValues, nums) ==
  IF RankingStage(lowerHeader, cleanValues, nums) THEN Analysis("ranking", 85)
  ELSE IF MultipleChoiceStage(cleanValues) THEN Analysis("multiple-choice", 80)
  ELSE SingleChoice(cleanValues)

Cascade_scaleBeforeBinary(lowerHeader, cleanValues, nums, dates) ==
  IF DateStage(lowerHeader, cleanValues, dates)
  THEN Analysis("date", IF HasKeyword(lowerHeader, dateKeywords) THEN 95 ELSE 80)
  ELSE IF ScaleStage(lowerHeader, cleanValues, nums)
  THEN Analysis("scale", IF HasKeyword(lowerHeader, scaleKeywords) THEN 90 ELSE 75)
  ELSE IF BinaryStage(lowerHeader, cleanValues) THEN Analysis("binary", 95)
  ELSE IF NumericStage(lowerHeader, cleanValues, nums) THEN Analysis("numeric", 80)
  ELSE IF OpenEndedStage(lowerHeader, cleanValues, dates)
  THEN Analysis("open-ended", OpenEndedConfidence(lowerHeader, cleanValues))
  ELSE CascadeFromRanking(lowerHeader, cleanValues, nums)

\* the body of analyzeQuestionType for a non-empty clean sample
Cascade(lowerHeader, cleanValues, nums, dates) ==
  IF DateStage(lowerHeader, cleanValues, dates)
  THEN Analysis("date", IF HasKeyword(lowerHeader, dateKeywords) THEN 95 ELSE 80)
  ELSE IF BinaryStage(lowerHeader, cleanValues) THEN Analysis("binary", 95)
  ELSE IF ScaleStage(lowerHeader, cleanValues, nums)
  THEN Analysis("scale", IF HasKeyword(lowerHeader, scaleKeywords) THEN 90 ELSE 75)
  ELSE IF NumericStage(lowerHeader, cleanValues, nums) THEN Analysis("numeric", 80)
  ELSE IF OpenEndedStage(lowerHeader, cleanValues, dates)
  THEN Analysis("open-ended", OpenEndedConfidence(lowerHeader, cleanValues))
  ELSE CascadeFromRanking(lowerHeader, cleanValues, nums)

AnalyzeClean(lowerHeader, cleanValues, dates) ==
  IF Len(cleanValues) = 0 THEN Analysis("single-choice", 10)
  ELSE Cascade(lowerHeader, cleanValues, NumericValues(cleanValues), dates)

analyzeQuestionType(header, values, sampleSize, dates) ==
  AnalyzeClean(toLowerCase(header), CleanValues(values, sampleSize), dates)

(***************************************************************************)
(* analyzeQuestionType on bounded samples                                  *)
(***************************************************************************)

MaxSample == 2

DefaultSampleSize == 100

SampleHeaders == {"Q1", "Date", "Rate", "Age", "Why", "Rank"}

SampleValues ==
  {"N/A", "Yes", "No", "1", "0", "30", "2024-01-15", "The staff was friendly"}

Samples == UNION { [1..n -> SampleValues] : n \in 0..MaxSample }

NoAnalysis == Analysis("", 0)

TypeInit ==
  /\ pc = "type_ready"
  /\ sampleHeader \in SampleHeaders
  /\ sampleValues \in Samples
  /\ hostDates \in SUBSET { v \in Range(sampleValues) : AllDigits(v) }
  /\ analysis = NoAnalysis
  /\ EngineIdle
  /\ CoderIdle /\ GroupsIdle /\ OptionsIdle /\ ExportIdle /\ ClusterIdle /\ AppIdle

\* one call of analyzeQuestionType(header, values)
AnalyzeQuestionType ==
  /\ pc = "type_ready"
  /\ analysis' = analyzeQuestionType(sampleHeader, sampleValues, DefaultSampleSize, hostDates)
  /\ pc' = "type_done"
  /\ UNCHANGED <<sampleHeader, sampleValues, hostDates>>
  /\ UNCHANGED <<engineVars, coderVars, groupVars, optionVars, exportVars, clusterVars, appVars>>

SpecType == TypeInit /\ [][AnalyzeQuestionType]_vars

\* the eight stages in the order of the source, each with its type and
\* whether its condition holds (the last one is the fallback)
StageOutcomes(lowerHeader, cleanValues, nums, dates) ==
  << [type |-> "date", holds |-> DateStage(lowerHeader, cleanValues, dates)],
     [type |-> "binary", holds |-> BinaryStage(lowerHeader, cleanValues)],
     [type |-> "scale", holds |-> ScaleStage(lowerHeader, cleanValues, nums)],
     [type |-> "numeric", holds |-> NumericStage(lowerHeader, cleanValues, nums)],
     [type |-> "open-ended", holds |-> OpenEndedStage(lowerHeader, cleanValues, dates)],
     [type |-> "ranking", holds |-> RankingStage(lowerHeader, cleanValues, nums)],
     [type |-> "multiple-choice", holds |-> MultipleChoiceStage(cleanValues)],
     [type |-> "single-choice", holds |-> TRUE] >>

StagesOfSample ==
  StageOutcomes(toLowerCase(sampleHeader), CleanValues(sampleValues, DefaultSampleSize),
                NumericValues(CleanValues(sampleValues, DefaultSampleSize)), hostDates)

\* C17: analyzeQuestionType returns, for every header and sample, one type
\* of the QuestionType enumeration with a confidence in [0, 1], and the type
\* is that of the earliest stage whose condition holds, in the order date,
\* binary, scale, numeric, open-ended, ranking, multiple-choice,
\* single-choice (the fallback).
C17_EarliestStageWins ==
  pc = "type_done" =>
    /\ analysis.type \in QuestionTypes
    /\ analysis.confidence \in 0..100
    /\ \E stages \in {StagesOfSample} :
         \E first \in 1..8 :
           /\ stages[first].holds
           /\ \A earlier \in 1..(first - 1) : ~stages[earlier].holds
           /\ analysis.type = stages[first].type

\* a sample of the two values 1 and 0 on which the binary, the scale and the
\* multiple-choice stage all hold, classified as binary
C17_Witness ==
  /\ pc = "type_done"
  /\ analysis.type = "binary"
  /\ \E stages \in {StagesOfSample} :
       /\ Cardinality({ k \in 1..8 : stages[k].holds }) >= 4
       /\ ~stages[1].holds

(***************************************************************************)
(* detectMultiSelectQuestions: the groups of columns that share a question *)
(* root, with their confidence in hundredths.  Headers are ASCII, so of    *)
(* the dashes a pattern accepts only "-" occurs.                           *)
(***************************************************************************)

\* the first position k >= 2 of a character of delims that is followed by at
\* least `after` more characters, 0 when there is none
FirstDelimiter(header, delims, after) ==
  CHOOSE k \in {0} \cup (2..(Len(header) - after)) :
    IF k = 0 THEN \A j \in 2..(Len(header) - after) : CharAt(header, j) \notin delims
    ELSE /\ CharAt(header, k) \in delims
         /\ \A j \in 2..(k - 1) : CharAt(header, j) \notin delims

\* match[1] of /^(.+?)\s*[delims]\s*.+$/, or <<>> without a match
RootBefore(header, delims) ==
  IF FirstDelimiter(header, delims, 1) = 0 THEN <<>>
  ELSE <<trim(Slice(header, 1, FirstDelimiter(header, delims, 1) - 1))>>

\* match[1] of /^(.+?)\s*\(.+\)$/, or <<>> without a match
RootBeforeParenthesis(header) ==
  IF CharAt(header, Len(header)) # ")" \/ FirstDelimiter(header, {"("}, 2) = 0 THEN <<>>
  ELSE <<trim(Slice(header, 1, FirstDelimiter(header, {"("}, 2) - 1))>>

\* the last position of the run of non-blank characters that starts at i
WordEnd(s, i) ==
  CHOOSE j \in i..Len(s) :
    /\ \A k \in i..j : ~IsSpace(CharAt(s, k))
    /\ (j = Len(s) \/ IsSpace(CharAt(s, j + 1)))

WordsFrom(s, starts) == Array([k \in 1..Len(starts) |-> Slice(s, starts[k], WordEnd(s, starts[k]))])

\* s.split(/\s+/): the runs of non-blank characters, with an empty string
\* in front of a leading and behind a trailing run of blanks
splitBlanks(s) ==
  (IF Len(s) = 0 \/ IsSpace(CharAt(s, 1)) THEN <<"">> ELSE <<>>)
  \o WordsFrom(s, SortNats({ i \in 1..Len(s) :
                               ~IsSpace(CharAt(s, i)) /\ (i = 1 \/ IsSpace(CharAt(s, i - 1))) }))
  \o (IF Len(s) > 1 /\ IsSpace(CharAt(s, Len(s))) THEN <<"">> ELSE <<>>)

FirstOr(seq, dflt) == IF seq = <<>> THEN dflt ELSE seq[1]

\* the result of the first of the six patterns that matches, else the first
\* five words
extractQuestionRoot(header) ==
  FirstOr(RootBefore(header, {"-"}) \o RootBefore(header, {":"}) \o RootBefore(header, {"|"})
            \o RootBeforeParenthesis(header) \o RootBefore(header, {";"})
            \o RootBefore(header, {","}),
          join(FirstN(splitBlanks(header), 5), " "))

\* some delimiter occurs in every column
hasConsistentStructure(columns) ==
  /\ Len(columns) >= 2
  /\ \E d \in {"-", ":", "|", ";", "(", ")"} :
       \A c \in 1..Len(columns) : includes(columns[c], d)

\* position of the last occurrence of sub in s, 0 when there is none
LastIndexOf(s, sub) ==
  CHOOSE i \in 0..Len(s) :
    IF i = 0 THEN \A j \in 1..Len(s) : ~MatchesAt(s, j, sub)
    ELSE MatchesAt(s, i, sub) /\ \A j \in (i + 1)..Len(s) : ~MatchesAt(s, j, sub)

\* s.split(delimiter).pop().trim()
LastPart(s, delimiter) ==
  IF LastIndexOf(s, delimiter) = 0 THEN trim(s)
  ELSE trim(Slice(s, LastIndexOf(s, delimiter) + Len(delimiter), Len(s)))

\* the option of hasTypicalMultiSelectOptions: the part behind the first
\* delimiter of the list that the column contains
OptionPart(col, delimiters) ==
  IF \A d \in 1..Len(delimiters) : ~includes(col, delimiters[d]) THEN col
  ELSE LastPart(col, delimiters[CHOOSE d \in 1..Len(delimiters) :
                                   /\ includes(col, delimiters[d])
                                   /\ \A e \in 1..(d - 1) : ~includes(col, delimiters[e])])

StartsWith(s, prefix) == MatchesAt(s, 1, prefix)

\* /^(option|choice|item)\s*\d+/i, /^[a-z]\)\s*/i, /^\d+\.\s*/ and
\* /^(yes|no|true|false|agree|disagree)/i on the lower-cased option
IsTypicalOption(lower) ==
  \/ \E w \in {"option", "choice", "item"} :
       /\ StartsWith(lower, w)
       /\ IsDigit(CharAt(trimStart(Slice(lower, Len(w) + 1, Len(lower))), 1))
  \/ IndexOfChar(CharAt(lower, 1), Letters.lower) > 0 /\ CharAt(lower, 2) = ")"
  \/ LeadingDigits(lower) # "" /\ CharAt(lower, Len(LeadingDigits(lower)) + 1) = "."
  \/ \E w \in {"yes", "no", "true", "false", "agree", "disagree"} : StartsWith(lower, w)

hasTypicalMultiSelectOptions(columns) ==
  Cardinality({ c \in 1..Len(columns) :
                  IsTypicalOption(toLowerCase(OptionPart(columns[c],
                                                         <<" - ", ": ", " | ", " ; ">>))) }) >= 2

multiSelectKeywords ==
  <<"select all", "choose all", "check all", "mark all", "which of the following",
    "what factors", "what reasons", "what types", "what kinds", "what sources",
    "what methods", "platforms", "channels", "options", "features">>

containsMultiSelectKeywords(questionText) ==
  \E k \in 1..Len(multiSelectKeywords) :
    includes(toLowerCase(questionText), multiSelectKeywords[k])

\* cleanHeader after the loop over the delimiters
RECURSIVE OptionAfter(_, _)
OptionAfter(cleanHeader, delimiters) ==
  IF delimiters = <<>> THEN cleanHeader
  ELSE OptionAfter(IF includes(cleanHeader, Head(delimiters))
                   THEN LastPart(cleanHeader, Head(delimiters)) ELSE cleanHeader,
                   Tail(delimiters))

extractOptionFromHeader(header) ==
  OptionAfter(trim(header), <<" - ", ": ", " | ", " ; ", ") ", "} ">>)

flagValues == {"1", "0", "yes", "no", "true", "false", "x", "checked", "selected"}

\* the cells analyzeResponsePatterns counts, each with the lower-cased
\* option of its column: [cell, option]
SampledCells(columns, allHeaders, sampleRows) ==
  Flatten([c \in 1..Len(columns) |->
    IF indexOf(allHeaders, columns[c]) = 0 THEN <<>>
    ELSE SelectSeq([r \in 1..Len(sampleRows) |->
                      [cell |-> toLowerCase(trim(sampleRows[r][indexOf(allHeaders, columns[c])])),
                       option |-> toLowerCase(extractOptionFromHeader(columns[c]))]],
                   LAMBDA x : x.cell \notin {"", "null", "undefined"})])

IsRating(cell) == ~isNaN(Number(cell)) /\ Number(cell).v >= 1 /\ Number(cell).v <= 10

\* score in hundredths and isRatingScale, from the counted cells
PatternScore(cells, flags, matches, ratings) ==
  IF Len(cells) = 0 THEN [score |-> 0, isRatingScale |-> FALSE]
  ELSE [score |-> (IF 10 * flags > 6 * Len(cells) THEN 30
                   ELSE IF 10 * flags > 3 * Len(cells) THEN 15 ELSE 0)
                  + (IF 10 * matches > 4 * Len(cells) THEN 20
                     ELSE IF 10 * matches > 2 * Len(cells) THEN 10 ELSE 0),
        isRatingScale |-> 10 * ratings > 6 * Len(cells)]

ScoreCells(cells) ==
  PatternScore(cells,
               Len(SelectSeq(cells, LAMBDA x : x.cell \in flagValues)),
               Len(SelectSeq(cells, LAMBDA x : x.option # "" /\ includes(x.cell, x.option))),
               Len(SelectSeq(cells, LAMBDA x : IsRating(x.cell))))

analyzeResponsePatterns(columns, allHeaders, dataRows) ==
  ScoreCells(SampledCells(columns, allHeaders, FirstN(dataRows, 50)))

\* responseScore, reduced by 0.4 and not below 0 for a rating scale
ResponseScore(responseAnalysis) ==
  IF ~responseAnalysis.isRatingScale THEN responseAnalysis.score
  ELSE IF responseAnalysis.score > 40 THEN responseAnalysis.score - 40 ELSE 0

CappedSum(structureScore, responseScore, keywordScore) ==
  IF structureScore + responseScore + keywordScore < 100
  THEN structureScore + responseScore + keywordScore ELSE 100

analyzeMultiSelectConfidence(questionRoot, columns, allHeaders, dataRows) ==
  CappedSum(30 + (IF hasConsistentStructure(columns) THEN 20 ELSE 0)
               + (IF hasTypicalMultiSelectOptions(columns) THEN 15 ELSE 0),
            IF Len(dataRows) > 0
            THEN ResponseScore(analyzeResponsePatterns(columns, allHeaders, dataRows)) ELSE 0,
            IF containsMultiSelectKeywords(questionRoot) THEN 25 ELSE 0)

\* the keys of `groups` in insertion order
QuestionRootsOf(headers) ==
  DedupInOrder(SelectSeq([h \in 1..Len(headers) |-> extractQuestionRoot(headers[h])],
                         LAMBDA root : Len(root) > 10), {})

DetectedGroup(questionRoot, columns, headers, dataRows) ==
  IF Len(columns) < 2 THEN <<>>
  ELSE <<[questionRoot |-> questionRoot, columns |-> columns,
          confidence |-> analyzeMultiSelectConfidence(questionRoot, columns, headers, dataRows)]>>

GroupsOfRoots(roots, headers, dataRows) ==
  Flatten([g \in 1..Len(roots) |->
             DetectedGroup(roots[g],
                           SelectSeq(headers, LAMBDA h : extractQuestionRoot(h) = roots[g]),
                           headers, dataRows)])

SortByGroupConfidence(groups) ==
  SortDescBy(groups, [g \in 1..Len(groups) |-> groups[g].confidence])

detectMultiSelectQuestions(headers, dataRows) ==
  SortByGroupConfidence(GroupsOfRoots(QuestionRootsOf(headers), headers, dataRows))

(***************************************************************************)
(* MultiSelectDefinition: the editing of config.multiSelectGroups and of   *)
(* the detected groups.  checkedBoxes[g][c] is the state of the unchecked- *)
(* by-default checkbox of column c of detected group g in the page.        *)
(***************************************************************************)

Put(map, key, val) == [k \in DOMAIN map \cup {key} |-> IF k = key THEN val ELSE map[k]]

Delete(map, key) == [k \in DOMAIN map \ {key} |-> map[k]]

RemoveAt(seq, i) == [k \in 1..(Len(seq) - 1) |-> IF k < i THEN seq[k] ELSE seq[k + 1]]

\* the checkboxes after a render: a checkbox that stays in the page keeps
\* its state, a new one is checked (defaultChecked)
RenderedBoxes(groups, boxes) ==
  [g \in 1..Len(groups) |->
     [c \in 1..Len(groups[g].columns) |->
        IF g <= Len(boxes) /\ c <= Len(boxes[g]) THEN boxes[g][c] ELSE TRUE]]

getAvailableColumns(groups, headers, currentGroupName) ==
  SelectSeq(headers, LAMBDA h :
    \A name \in DOMAIN groups \ {currentGroupName} : h \notin Range(groups[name]))

MaxGroups == 1

GroupHeaders ==
  <<"Which brands - A", "Which brands - B", "Favourite shop: X", "Favourite shop: Y">>

GroupDatasets ==
  { Dataset(GroupHeaders, rows) :
      rows \in { <<>>, << <<"1", "0", "X", "">>, <<"0", "1", "", "shop y">> >> } }

TypedNames == {"", "Which brands"}

GroupsInit ==
  /\ pc = "groups"
  /\ data \in GroupDatasets
  /\ config = NoConfig
  /\ detectedGroups = detectMultiSelectQuestions(data.headers, data.rows)
  /\ checkedBoxes = RenderedBoxes(detectMultiSelectQuestions(data.headers, data.rows), <<>>)
  /\ results = <<>> /\ threw = FALSE /\ filteredData = NoData
  /\ absoluteData = <<>> /\ baseValues = <<>> /\ significanceFlags = <<>>
  /\ zArgs = <<0, 0, 0, 0>> /\ zResult = NoZResult
  /\ CoderIdle /\ TypeIdle /\ OptionsIdle /\ ExportIdle /\ ClusterIdle /\ AppIdle

\* MultiSelectDefinition is on the page: on its own, or on the multiselect
\* step of the wizard
GroupsShown ==
  \/ pc = "groups"
  \/ pc = "wizard" /\ currentStep = "multiselect" /\ data # NoData /\ ~namingTimer.pending

\* what an operation of MultiSelectDefinition leaves alone
GroupsFrame ==
  UNCHANGED <<pc, data, results, threw, filteredData, absoluteData, baseValues,
              significanceFlags, zArgs, zResult, coderVars, typeVars,
              optionVars, exportVars, clusterVars, appVars>>

addMultiSelectGroup ==
  /\ GroupsShown
  /\ Cardinality(DOMAIN config.multiSelectGroups) < MaxGroups
  /\ config' = [config EXCEPT !.multiSelectGroups =
                  Put(@, "Multi-Select Question " \o NatToStr(Cardinality(DOMAIN @) + 1), <<>>)]
  /\ UNCHANGED <<detectedGroups, checkedBoxes>>
  /\ GroupsFrame

removeMultiSelectGroup ==
  /\ GroupsShown
  /\ \E groupName \in DOMAIN config.multiSelectGroups :
       config' = [config EXCEPT !.multiSelectGroups = Delete(@, groupName)]
  /\ UNCHANGED <<detectedGroups, checkedBoxes>>
  /\ GroupsFrame

updateGroupName ==
  /\ GroupsShown
  /\ \E oldName \in DOMAIN config.multiSelectGroups, newName \in TypedNames :
       IF newName # "" /\ newName # oldName /\ newName \notin DOMAIN config.multiSelectGroups
       THEN config' = [config EXCEPT !.multiSelectGroups =
                         Delete(Put(@, newName, @[oldName]), oldName)]
       ELSE UNCHANGED config
  /\ UNCHANGED <<detectedGroups, checkedBoxes>>
  /\ GroupsFrame

\* a checkbox of a group is shown for its available columns only and is
\* checked iff the column is in the group
updateGroupColumns ==
  /\ GroupsShown
  /\ \E groupName \in DOMAIN config.multiSelectGroups :
       \E column \in Range(getAvailableColumns(config.multiSelectGroups, data.headers, groupName)) :
         config' = [config EXCEPT !.multiSelectGroups[groupName] =
                      IF column \notin Range(@) THEN Append(@, column)
                      ELSE SelectSeq(@, LAMBDA c : c # column)]
  /\ UNCHANGED <<detectedGroups, checkedBoxes>>
  /\ GroupsFrame

\* the button is disabled when no column is available
selectAllForGroup ==
  /\ GroupsShown
  /\ \E groupName \in DOMAIN config.multiSelectGroups :
       \E availableColumns \in {getAvailableColumns(config.multiSelectGroups, data.headers, groupName)} :
         /\ availableColumns # <<>>
         /\ config' = [config EXCEPT !.multiSelectGroups[groupName] =
                         IF Len(@) = Len(availableColumns) THEN <<>> ELSE availableColumns]
  /\ UNCHANGED <<detectedGroups, checkedBoxes>>
  /\ GroupsFrame

handleAcceptDetectedGroup ==
  /\ GroupsShown
  /\ \E g \in 1..Len(detectedGroups) :
       /\ config' = [config EXCEPT !.multiSelectGroups =
                       Put(@, detectedGroups[g].questionRoot, detectedGroups[g].columns)]
       /\ detectedGroups' = RemoveAt(detectedGroups, g)
       /\ checkedBoxes' = RenderedBoxes(RemoveAt(detectedGroups, g), checkedBoxes)
  /\ GroupsFrame

handleRejectDetectedGroup ==
  /\ GroupsShown
  /\ \E g \in 1..Len(detectedGroups) :
       /\ detectedGroups' = RemoveAt(detectedGroups, g)
       /\ checkedBoxes' = RenderedBoxes(RemoveAt(detectedGroups, g), checkedBoxes)
  /\ UNCHANGED config
  /\ GroupsFrame

\* the columns whose checkbox is checked once the clicked one has toggled
KeptColumns(columns, boxes) ==
  Flatten([c \in 1..Len(columns) |-> IF boxes[c] THEN <<columns[c]>> ELSE <<>>])

\* a click on the checkbox of column colIndex of detected group g
handleModifyDetectedGroup ==
  /\ GroupsShown
  /\ \E g \in 1..Len(detectedGroups) :
       \E colIndex \in 1..Len(detectedGroups[g].columns) :
         \E clicked \in {[checkedBoxes EXCEPT ![g][colIndex] = ~@]} :
           \E updated \in {[detectedGroups EXCEPT
                               ![g].columns = KeptColumns(@, clicked[g])]} :
             /\ detectedGroups' = updated
             /\ checkedBoxes' = RenderedBoxes(updated, clicked)
  /\ UNCHANGED config
  /\ GroupsFrame

GroupsNext ==
  \/ addMultiSelectGroup
  \/ removeMultiSelectGroup
  \/ updateGroupName
  \/ updateGroupColumns
  \/ selectAllForGroup
  \/ handleAcceptDetectedGroup
  \/ handleRejectDetectedGroup
  \/ handleModifyDetectedGroup

SpecGroups == GroupsInit /\ [][GroupsNext]_vars

\* C18: after any sequence of operations of MultiSelectDefinition no column
\* name belongs to more than one group of multiSelectGroups.
C18_ColumnInAtMostOneGroup ==
  pc = "groups" =>
    \A name1, name2 \in DOMAIN config.multiSelectGroups :
      name1 # name2 =>
        Range(config.multiSelectGroups[name1]) \cap Range(config.multiSelectGroups[name2]) = {}

(***************************************************************************)
(* OutputOptionsModal (src/project/src/components/OutputOptionsModal.tsx)   *)
(* over the outputOptions and showOutputModal state of App.                *)
(***************************************************************************)

\* the most change events of the two checkboxes that a behaviour delivers
MaxToggles == 5

\* key: 'counts' | 'percentages'
OptionKeys == {"counts", "percentages"}

\* onOptionsChange({ ...options, [key]: value }) with no guard before it
handleOptionChange_unguarded(opts, key, value) == [opts EXCEPT ![key] = value]

\* handleOptionChange(key, value) under the props options = opts: the value
\* of outputOptions after the call (onOptionsChange is setOutputOptions)
handleOptionChange(opts, key, value) ==
  IF ~value /\ ((key = "counts" /\ ~opts.percentages) \/ (key = "percentages" /\ ~opts.counts))
  THEN opts
  ELSE [opts EXCEPT ![key] = value]

\* the dialog is mounted over the initial state of App
OptionsInit ==
  /\ pc = "options"
  /\ outputOptions = DefaultOutputOptions
  /\ showOutputModal = TRUE
  /\ analysisTimer = FALSE
  /\ optionChanges = <<>>
  /\ EngineIdle
  /\ CoderIdle /\ TypeIdle /\ GroupsIdle /\ ExportIdle /\ ClusterIdle /\ AppIdle

OptionsFrame == UNCHANGED <<pc, engineVars, coderVars, typeVars, groupVars, exportVars, clusterVars, appVars>>

\* onChange of one of the two checkboxes, which are controlled by
\* options.counts and options.percentages: e.target.checked is the negation
\* of the rendered flag
onChange ==
  /\ pc = "options"
  /\ showOutputModal
  /\ Len(optionChanges) < MaxToggles
  /\ \E key \in OptionKeys :
       \E value \in {~outputOptions[key]} :
         /\ outputOptions' = handleOptionChange(outputOptions, key, value)
         /\ optionChanges' = Append(optionChanges, [key |-> key, value |-> value])
  /\ UNCHANGED <<showOutputModal, analysisTimer>>
  /\ OptionsFrame

\* onCancel={() => setShowOutputModal(false)}
onCancel ==
  /\ pc = "options"
  /\ showOutputModal
  /\ showOutputModal' = FALSE
  /\ UNCHANGED <<outputOptions, analysisTimer, optionChanges>>
  /\ OptionsFrame

\* onConfirm={handleOutputOptionsConfirmed}: closes the dialog and sets the
\* timer of handleGenerateAnalysis
handleOutputOptionsConfirmed ==
  /\ pc = "options"
  /\ showOutputModal
  /\ showOutputModal' = FALSE
  /\ analysisTimer' = TRUE
  /\ UNCHANGED <<outputOptions, optionChanges>>
  /\ OptionsFrame

OptionsNext ==
  \/ onChange
  \/ onCancel
  \/ handleOutputOptionsConfirmed

SpecOptions == OptionsInit /\ [][OptionsNext]_vars

\* C20: starting from {counts: true, percentages: true}, after any sequence
\* of changes of the two checkboxes of the output-options dialog at least one
\* of counts and percentages is true.
C20_AtLeastOneOption == outputOptions.counts \/ outputOptions.percentages

\* counts was switched off and the change that would switch percentages off
\* as well was delivered and refused
C20_Witness ==
  /\ pc = "options"
  /\ Len(optionChanges) > 1
  /\ optionChanges[Len(optionChanges)] = [key |-> "percentages", value |-> FALSE]
  /\ ~outputOptions.counts
  /\ outputOptions.percentages

(***************************************************************************)
(* The inputs of generateCrossTabs and applyFilters after a run            *)
(***************************************************************************)

\* filters of a run: none, one that drops the rows of Oslo, one on numbers
FrameFilterMaps ==
  { EmptyMap,
    [id \in {"filter_1"} |-> Flt("City", "equals", "ROME", NoSecond)],
    [id \in {"filter_1"} |-> Flt("Age", "greater_than", "6", NoSecond)] }

\* City by Age on the filter datasets, and the ranking battery of Scenario C
FrameInputs ==
  { <<d, [NoConfig EXCEPT !.filters = f,
                          !.tableVariables = <<"City">>,
                          !.bannerVariables = <<"Age">>]>> :
      d \in FilterDatasets, f \in FrameFilterMaps }
  \cup { <<ScenarioCData, ScenarioCConfig>> }

\* a call of generateCrossTabs or of applyFilters is about to be made
FrameInit ==
  /\ pc \in {"ready", "flt_ready"}
  /\ \E in \in FrameInputs : data = in[1] /\ config = in[2]
  /\ results = <<>>
  /\ threw = FALSE
  /\ filteredData = NoData
  /\ absoluteData = <<>> /\ baseValues = <<>> /\ significanceFlags = <<>>
  /\ zArgs = <<0, 0, 0, 0>> /\ zResult = NoZResult
  /\ ToolsIdle

FrameNext ==
  \/ GenerateCrossTabs
  \/ ApplyFilters

SpecFrame == FrameInit /\ [][FrameNext]_vars

AnswerSet(bannerVar) ==
  { v \in { RawValue(KeptRows[i], bannerVar) : i \in 1..Len(KeptRows) } : NonBlank(v) }

\* the headers of a result at the code's indices first .. last (Total is 0)
HeaderSpan(headers, first, last) ==
  [j \in 1..(last - first + 1) |-> headers[first + j]]

\* C21: in every result, headers is 'Total' followed by the answers of each
\* banner variable in configured order, and bannerStructure has one entry per
\* banner variable: the first starts at index 1, each starts right after the
\* end of the previous one, spans as many columns as it has answers, the
\* headers of its span are its answers, and its answers are the distinct
\* non-blank values of the variable in ascending order.
C21_BannerStructureDescribesHeaders ==
  pc = "done" =>
    \A k \in 1..Len(results) :
      \E bs \in {results[k].bannerStructure}, hs \in {results[k].headers} :
        /\ Len(bs) = Len(config.bannerVariables)
        /\ hs[1] = "Total"
        /\ Len(hs) = IF bs = <<>> THEN 1 ELSE bs[Len(bs)].endIndex + 1
        /\ \A b \in 1..Len(bs) :
             /\ bs[b].startIndex = IF b = 1 THEN 1 ELSE bs[b - 1].endIndex + 1
             /\ bs[b].endIndex - bs[b].startIndex + 1 = Len(bs[b].answers)
             /\ HeaderSpan(hs, bs[b].startIndex, bs[b].endIndex) = bs[b].answers
             /\ Range(bs[b].answers) = AnswerSet(config.bannerVariables[b])
             /\ \A j \in 1..(Len(bs[b].answers) - 1) :
                  StrLess(bs[b].answers[j], bs[b].answers[j + 1])

\* C21 witness: a table over the banners Region and Zone, which share the
\* answer North
C21_Witness ==
  /\ pc = "done"
  /\ Len(results) = 1
  /\ config.bannerVariables = <<"Region", "Zone">>
  /\ results[1].headers = <<"Total", "North", "South", "East", "North">>
  /\ results[1].bannerStructure[2].startIndex = 3

(***************************************************************************)
(* The column mapping of a ranking battery (Spec)                          *)
(***************************************************************************)

\* the headers typed 'ranking' that carry the rank suffix Rank<rank>
ColumnsOfRank(rank) ==
  { h \in Range(data.headers) :
      /\ h \in DOMAIN config.questionTypes
      /\ config.questionTypes[h] = "ranking"
      /\ includes(h, "_Rank" \o NatToStr(rank) \o "_") }

\* C22: for a ranking battery whose headers carry the suffixes Rank1 .. RankN
\* (N >= 2) with the same options at each rank, the detected structure has
\* the columns of Rank1 as rank1Columns, those of Rank2 as rank2Columns and
\* those of Rank3 as rank3Columns, and every non-empty list of them has as
\* many entries as there are options.
C22_RankSuffixesMapToRankColumns ==
  (pc = "done" /\ ColumnsOfRank(1) # {} /\ ColumnsOfRank(2) # {}) =>
    \E structures \in {detectRankQuestionStructure(data.headers, config.questionTypes)} :
      /\ Len(structures) = 1
      /\ \E mapping \in {structures[1].columnMapping} :
           /\ Range(mapping.rank1Columns) = ColumnsOfRank(1)
           /\ Range(mapping.rank2Columns) = ColumnsOfRank(2)
           /\ Range(mapping.rank3Columns) = ColumnsOfRank(3)
           /\ \A cols \in {mapping.rank1Columns, mapping.rank2Columns, mapping.rank3Columns} :
                cols # <<>> => Len(cols) = Len(structures[1].options)

(***************************************************************************)
(* The combined sections of a ranking table (Spec)                         *)
(***************************************************************************)

\* the number of kept rows of column c in which one of the columns `cols`
\* holds a qualifying value, every row counted once
RowsWithAnyRank(cols, bannerCols, c) ==
  Cardinality({ i \in 1..Len(KeptRows) :
                  /\ InColumn(KeptRows[i], bannerCols, c)
                  /\ \E col \in cols \ {""} :
                       HasRankValue(RowData(data.headers, KeptRows[i]), col) })

\* C23: in the table of a ranking battery every cell of 'Rank 1 + 2' and of
\* 'Rank 1 + 2 + 3' is the number of rows of the column in which one of the
\* option's rank columns holds a qualifying value, each row counted once, as
\* a percentage of the base of the column, and so is at most 100.
C23_CombinedRanksCountRowsOnce ==
  pc = "done" =>
    \A k \in 1..Len(results) :
      results[k].questionType = "ranking" =>
        \E calc \in {results[k].rankingCalculations},
           bases \in {results[k].baseValues},
           bannerCols \in {BannerColumns(KeptRows)},
           structures \in {detectRankQuestionStructure(data.headers, config.questionTypes)} :
          \A o \in 1..Len(calc.rank1Plus2), c \in 1..Len(bases) :
            \E r1 \in {ColumnAt(structures[1].columnMapping.rank1Columns, o)},
               r2 \in {ColumnAt(structures[1].columnMapping.rank2Columns, o)},
               r3 \in {ColumnAt(structures[1].columnMapping.rank3Columns, o)} :
              /\ calc.rank1Plus2[o][c] =
                   Percentage(RowsWithAnyRank({r1, r2}, bannerCols, c), bases[c])
              /\ calc.rank1Plus2Plus3[o][c] =
                   Percentage(RowsWithAnyRank({r1, r2, r3}, bannerCols, c), bases[c])
              /\ calc.rank1Plus2[o][c] <= 100
              /\ calc.rank1Plus2Plus3[o][c] <= 100

(***************************************************************************)
(* The theme rows of an open-ended table (Spec)                            *)
(***************************************************************************)

\* the kept rows with a non-blank response to tableVar that ThemeOf assigns
\* to `theme` and that belong to column c
RowsOfTheme(tableVar, theme, bannerCols, c) ==
  { i \in 1..Len(KeptRows) :
      /\ NonBlank(RawValue(KeptRows[i], tableVar))
      /\ ThemeOf(RawValue(KeptRows[i], tableVar)) = theme
      /\ InColumn(KeptRows[i], bannerCols, c) }

\* C24: in the table of an open-ended variable every non-blank response is
\* counted under exactly one theme row, and the cell of every theme row in
\* every column (banner variable v, answer a) is the number of rows of that
\* theme whose value of v is a, which is at most the base of the column, also
\* when two banner variables share an answer label.
C24_ThemeCellsCountRowsOfColumn ==
  pc = "done" =>
    \A k \in 1..Len(results) :
      results[k].questionType = "open-ended" =>
        \E r \in {results[k]}, bannerCols \in {BannerColumns(KeptRows)},
           tableVar \in {config.tableVariables[1]} :
          /\ \A i \in 1..Len(KeptRows) :
               NonBlank(RawValue(KeptRows[i], tableVar)) =>
                 Cardinality({ t \in 3..Len(r.rowLabels) :
                                 r.rowLabels[t] = ThemeOf(RawValue(KeptRows[i], tableVar)) }) = 1
          /\ \A t \in 3..Len(r.rowLabels), c \in 1..Len(r.headers) :
               /\ r.absolute[t][c] =
                    Cardinality(RowsOfTheme(tableVar, r.rowLabels[t], bannerCols, c))
               /\ r.absolute[t][c] <= r.baseValues[c]

(***************************************************************************)
(* The statistical measures of a numeric or scale variable (Spec)          *)
(***************************************************************************)

\* the numbers of the cells of tableVar of the kept rows of column c whose
\* cell parses as a number; a blank cell gives none
ParsedNumbers(tableVar, bannerCols, c) ==
  LET rows == SelectSeq(KeptRows,
                LAMBDA row : InColumn(row, bannerCols, c)
                             /\ ParsesAsNumber(row[indexOf(data.headers, tableVar)]))
  IN Array([i \in 1..Len(rows) |-> Number(rows[i][indexOf(data.headers, tableVar)]).v])

\* C25: for a numeric or scale variable statisticalMeasures holds one mean,
\* one median and one population standard deviation per header column, each
\* computed over exactly the rows of the column whose cell of the variable
\* parses as a number; rows with a blank cell contribute nothing.
C25_MeasuresOverParsedNumbers ==
  pc = "done" =>
    \A k \in 1..Len(results) :
      results[k].questionType \in {"numeric", "scale"} =>
        \E m \in {results[k].statisticalMeasures},
           bannerCols \in {BannerColumns(KeptRows)},
           tableVar \in {config.tableVariables[1]} :
          /\ m.present
          /\ Len(m.mean) = Len(results[k].headers)
          /\ Len(m.median) = Len(results[k].headers)
          /\ Len(m.standardDeviation) = Len(results[k].headers)
          /\ \A c \in 1..Len(results[k].headers) :
               \E numbers \in {ParsedNumbers(tableVar, bannerCols, c)} :
                 /\ m.mean[c] = calculateMean(numbers)
                 /\ m.median[c] = calculateMedian(numbers)
                 /\ m.standardDeviation[c] = calculateStandardDeviation(numbers)

(***************************************************************************)
(* The banner header rows of the export (Spec)                             *)
(***************************************************************************)

\* C26: for every result with banner variables the two header rows the
\* exporter rebuilds from bannerStructure have 1 + headers.length cells each,
\* and the cell of the answer row for column k >= 1 is headers[k], also when
\* a banner variable has no answers in the filtered data.
C26_BannerHeaderRowsMatchHeaders ==
  pc = "exported" =>
    \A k \in 1..Len(results) :
      Len(results[k].bannerStructure) > 0 =>
        \E rows \in {exported.bannerHeaders[k]}, hs \in {results[k].headers} :
          /\ Len(rows) = 2
          /\ Len(rows[1]) = 1 + Len(hs)
          /\ Len(rows[2]) = 1 + Len(hs)
          /\ \A j \in 2..Len(hs) : rows[2][j + 1] = hs[j]

\* C29: every result that carries rankingCalculations, from the ranking
\* battery or from a single-column ranking variable, has the fields the
\* RANKING ANALYSIS section of the exporter reads, so the export of the
\* results of a run does not fail on that section.
C29_ExportReadsRankingCalculations ==
  pc = "exported" =>
    /\ \A k \in 1..Len(results) :
         results[k].rankingCalculations.present =>
           RankingSectionFields \subseteq DOMAIN results[k].rankingCalculations
    /\ ~exported.threw

(***************************************************************************)
(* OpenEndCoder.hierarchicalClustering, one step per loop iteration        *)
(***************************************************************************)

\* responses clustered at most
MaxClusterItems == 3

\* the values cosineSimilarity(tfidfMatrix[a], tfidfMatrix[b]) is drawn from;
\* sums and quotients of these are compared exactly, as the doubles of the
\* code compare
Similarities == { [num |-> 0, den |-> 1], [num |-> 1, den |-> 1] }

ResponsePairs(n) == { p \in (1..n) \X (1..n) : p[1] < p[2] }

\* the similarities of n responses, one value per unordered pair (the cosine
\* is symmetric)
CosineMatrices(n) == [ResponsePairs(n) -> Similarities]

SimilarityOf(matrix, a, b) == IF a < b THEN matrix[<<a, b>>] ELSE matrix[<<b, a>>]

FractionSum(x, y) == [num |-> x.num * y.den + y.num * x.den, den |-> x.den * y.den]

RECURSIVE SimilarityTotal(_, _, _, _)
\* totalDistance after the forEach over cluster1 x cluster2, from pair k on
SimilarityTotal(cluster1, cluster2, matrix, k) ==
  IF k > Len(cluster1) * Len(cluster2) THEN [num |-> 0, den |-> 1]
  ELSE FractionSum(
         SimilarityOf(matrix, cluster1[((k - 1) \div Len(cluster2)) + 1],
                              cluster2[((k - 1) % Len(cluster2)) + 1]),
         SimilarityTotal(cluster1, cluster2, matrix, k + 1))

\* 1 - total / count
OneMinusAverage(total, count) ==
  [num |-> count * total.den - total.num, den |-> count * total.den]

\* 1 - totalDistance / count as a fraction (count > 0: clusters are never
\* empty)
AverageDistance(cluster1, cluster2, matrix) ==
  OneMinusAverage(SimilarityTotal(cluster1, cluster2, matrix, 1), Len(cluster1) * Len(cluster2))

DistanceLess(a, b) == a.num * b.den < b.num * a.den

\* let minDistance = Infinity; let mergeIndices = [0, 1]
NoPairYet == [infinite |-> TRUE, distance |-> [num |-> 0, den |-> 1], mergeIndices |-> <<1, 2>>]

\* if (distance <= minDistance): the last-encountered lowest pair
Closer_orEqual(distance, best) == best.infinite \/ ~DistanceLess(best.distance, distance)

\* if (distance < minDistance)
Closer(distance, best) == best.infinite \/ DistanceLess(distance, best.distance)

\* minDistance and mergeIndices after one evaluation of the if in the inner
\* loop
Closest(cs, matrix, i, j, best) ==
  CHOOSE after \in
    { IF Closer(distance, before)
      THEN [infinite |-> FALSE, distance |-> distance, mergeIndices |-> <<i, j>>]
      ELSE before :
        distance \in {AverageDistance(cs[i], cs[j], matrix)}, before \in {best} } : TRUE

RECURSIVE ScanPairs(_, _, _, _, _)
\* minDistance and mergeIndices after the nested for loops, from the pair
\* (i, j) on
ScanPairs(cs, matrix, i, j, best) ==
  IF i > Len(cs) THEN best
  ELSE IF j > Len(cs) THEN ScanPairs(cs, matrix, i + 1, i + 2, best)
  ELSE ScanPairs(cs, matrix, i, j + 1, Closest(cs, matrix, i, j, best))

ClosestPair(cs, matrix) == ScanPairs(cs, matrix, 1, 2, NoPairYet)

\* minDistance > this.settings.similarityThreshold
ExceedsThreshold(best, st) ==
  best.infinite
    \/ st.similarityThreshold.num * best.distance.den
         < best.distance.num * st.similarityThreshold.den

\* createDefaultCodingSettings with minCategorySize, maxCategories and
\* similarityThreshold varied
ClusterSettings ==
  { [minCategorySize |-> size, maxCategories |-> most, similarityThreshold |-> threshold,
     useSemanticClustering |-> TRUE, excludeShortResponses |-> FALSE,
     minResponseLength |-> 5] :
      size \in 1..2, most \in 0..MaxClusterItems,
      threshold \in { [num |-> 0, den |-> 1], [num |-> 1, den |-> 2], [num |-> 1, den |-> 1] } }

\* before new OpenEndCoder(settings) clusters a batch
ClusterInit ==
  /\ pc = "hc_call"
  /\ ClusterIdle
  /\ EngineIdle
  /\ CoderIdle /\ TypeIdle /\ GroupsIdle /\ OptionsIdle /\ ExportIdle /\ AppIdle

ClusterFrame ==
  UNCHANGED <<engineVars, coderVars, typeVars, groupVars, optionVars, exportVars, cosineMatrix, appVars>>

\* the call with the similarities of n responses:
\* const clusters = responses.map(r => [r])
StartClustering ==
  /\ pc = "hc_call"
  /\ \E n \in 0..MaxClusterItems :
       /\ cosineMatrix' \in CosineMatrices(n)
       /\ hcClusters' = [i \in 1..n |-> <<i>>]
  /\ settings' \in ClusterSettings
  /\ pc' = "hc_loop"
  /\ UNCHANGED <<merges, openEndResponses, coding>>
  /\ UNCHANGED <<engineVars, typeVars, groupVars, optionVars, exportVars, appVars>>

\* an iteration that reaches "Merge clusters"
MergeIteration ==
  /\ pc = "hc_loop"
  /\ Len(hcClusters) > settings.maxCategories
  /\ \E best \in {ClosestPair(hcClusters, cosineMatrix)} :
       /\ ~ExceedsThreshold(best, settings)
       /\ hcClusters' = MergeClusters(hcClusters, best.mergeIndices[1], best.mergeIndices[2])
  /\ merges' = merges + 1
  /\ pc' = "hc_loop"
  /\ ClusterFrame

\* an iteration that ends in break
BreakIteration ==
  /\ pc = "hc_loop"
  /\ Len(hcClusters) > settings.maxCategories
  /\ ExceedsThreshold(ClosestPair(hcClusters, cosineMatrix), settings)
  /\ pc' = "hc_stopped"
  /\ UNCHANGED <<hcClusters, merges>>
  /\ ClusterFrame

\* the while condition is false
LoopExit ==
  /\ pc = "hc_loop"
  /\ ~(Len(hcClusters) > settings.maxCategories)
  /\ pc' = "hc_stopped"
  /\ UNCHANGED <<hcClusters, merges>>
  /\ ClusterFrame

\* return clusters.filter(cluster => cluster.length >= minCategorySize)
ReturnClusters ==
  /\ pc = "hc_stopped"
  /\ hcClusters' = SelectSeq(hcClusters, LAMBDA cluster : Len(cluster) >= settings.minCategorySize)
  /\ pc' = "hc_returned"
  /\ UNCHANGED merges
  /\ ClusterFrame

ClusterNext ==
  \/ StartClustering
  \/ MergeIteration
  \/ BreakIteration
  \/ LoopExit
  \/ ReturnClusters

SpecCluster == ClusterInit /\ [][ClusterNext]_vars

\* the loop is synchronous code of one call: a step that can be taken is
\* taken
SpecClusterFair == SpecCluster /\ WF_vars(ClusterNext)

\* the distances of all pairs of the current clusters
PairDistances(cs, matrix) ==
  { AverageDistance(cs[p[1]], cs[p[2]], matrix) : p \in ClusterPairs(cs) }

\* p is the lowest-distance pair that comes first in iteration order
IsFirstLowestPair(p, cs, matrix) ==
  /\ p \in ClusterPairs(cs)
  /\ \A q \in ClusterPairs(cs) :
       \/ DistanceLess(AverageDistance(cs[p[1]], cs[p[2]], matrix),
                       AverageDistance(cs[q[1]], cs[q[2]], matrix))
       \/ /\ ~DistanceLess(AverageDistance(cs[q[1]], cs[q[2]], matrix),
                           AverageDistance(cs[p[1]], cs[p[2]], matrix))
          /\ (p[1] < q[1] \/ (p[1] = q[1] /\ p[2] <= q[2]))

C27_IterationMergesOrStops ==
  /\ pc = "hc_loop"
  /\ \/ /\ pc' = "hc_stopped"
        /\ hcClusters' = hcClusters
     \/ /\ pc' = "hc_loop"
        /\ Len(hcClusters') = Len(hcClusters) - 1
        /\ \E p \in ClusterPairs(hcClusters) :
             /\ IsFirstLowestPair(p, hcClusters, cosineMatrix)
             /\ hcClusters' = MergeClusters(hcClusters, p[1], p[2])

C27_StoppedCondition ==
  pc = "hc_stopped" =>
    \/ Len(hcClusters) <= settings.maxCategories
    \/ \A d \in PairDistances(hcClusters, cosineMatrix) :
         settings.similarityThreshold.num * d.den < d.num * settings.similarityThreshold.den

NamingRowKinds == { <<"Male", "North", "East">>, <<"Female", "South", "North">> }

\* getTablesForNaming: the suggested name of a table variable
SuggestedName(cfg, tableVar) ==
  IF tableVar \in DOMAIN cfg.multiSelectGroups THEN tableVar \o " (Multi-Select Analysis)"
  ELSE IF tableVar \in DOMAIN cfg.customVariables THEN tableVar \o " (Custom Variable)"
  ELSE tableVar \o " Analysis"

SuggestedNames(cfg) ==
  [tv \in Range(cfg.tableVariables) |-> SuggestedName(cfg, tv)]

\* the names the dialog can confirm for a variable: the suggestion or an
\* edited name
ConfirmableNames(cfg, tableVar) == { SuggestedName(cfg, tableVar), "Table " \o tableVar }

\* the state of TableNamingModal at Confirm: a name for every table variable
ConfirmableTableNames(cfg) ==
  { names \in [Range(cfg.tableVariables) ->
                 UNION { ConfirmableNames(cfg, tv) : tv \in Range(cfg.tableVariables) }] :
      \A tv \in Range(cfg.tableVariables) : names[tv] \in ConfirmableNames(cfg, tv) }

\* config when the dialog opens: no names yet, or the names of an earlier
\* confirmation (handleBackToVariables keeps them)
NamingConfigs ==
  { [Config(tvs, <<"Zone">>) EXCEPT !.tableNames = earlier] :
      tvs \in { <<"Gender">>, <<"Gender", "Region">> },
      earlier \in { EmptyMap, [v \in {"Gender"} |-> "Sex"] } }

\* after handleProceedToNaming: the dialog is open on the filters step
NamingInit ==
  /\ pc = "naming_dialog"
  /\ data \in DatasetsOver(RegularHeaders, NamingRowKinds)
  /\ config \in NamingConfigs
  /\ results = <<>> /\ threw = FALSE
  /\ filteredData = NoData
  /\ absoluteData = <<>> /\ baseValues = <<>> /\ significanceFlags = <<>>
  /\ zArgs = <<0, 0, 0, 0>> /\ zResult = NoZResult
  /\ currentStep = "filters" /\ showNamingModal = TRUE /\ namingTimer = NoTimer
  /\ pendingFiles = {}
  /\ CoderIdle /\ TypeIdle /\ GroupsIdle /\ OptionsIdle /\ ExportIdle /\ ClusterIdle

AppFrame ==
  /\ UNCHANGED <<filteredData, absoluteData, baseValues, significanceFlags, zArgs, zResult>>
  /\ UNCHANGED <<coderVars, typeVars, optionVars, exportVars, clusterVars>>

\* the config that handleGenerateAnalysis of a render reads: the state of that
\* render
ClosureOfRender(renderedConfig, updatedConfig) == renderedConfig

\* handleTableNamesConfirmed(tableNames): setConfig, setShowNamingModal,
\* setCurrentStep and setTimeout(() => handleGenerateAnalysis(), 100), whose
\* callback calls the handleGenerateAnalysis of the render that ran the
\* handler
handleTableNamesConfirmed ==
  /\ pc \in {"naming_dialog", "wizard"}
  /\ showNamingModal
  /\ ~namingTimer.pending
  /\ \E tableNames \in ConfirmableTableNames(config) :
       \E updated \in {[config EXCEPT !.tableNames = tableNames]} :
         /\ config' = updated
         /\ namingTimer' = [pending |-> TRUE, excelData |-> data,
                            closure |-> ClosureOfRender(config, updated)]
  /\ showNamingModal' = FALSE
  /\ currentStep' = "naming"
  /\ pc' = IF pc = "wizard" THEN pc ELSE "naming_timer"
  /\ UNCHANGED <<data, results, threw, pendingFiles, groupVars>>
  /\ AppFrame

\* the timer fires: handleGenerateAnalysis() of the scheduling render returns
\* without excelData, or runs generateCrossTabs(excelData, config, ...), then
\* setResults and setCurrentStep('results'), or the alert of the catch
handleGenerateAnalysis ==
  /\ pc \in {"naming_timer", "wizard"}
  /\ namingTimer.pending
  /\ IF namingTimer.excelData = NoData
     THEN UNCHANGED <<threw, results, currentStep>>
     ELSE \E out \in {generateCrossTabs(namingTimer.excelData, namingTimer.closure)} :
            /\ threw' = out.threw
            /\ results' = IF out.threw THEN results ELSE out.value
            /\ currentStep' = IF out.threw THEN currentStep ELSE "results"
  /\ namingTimer' = NoTimer
  /\ pc' = IF pc = "wizard" THEN pc ELSE "naming_done"
  /\ UNCHANGED <<data, config, showNamingModal, pendingFiles, groupVars>>
  /\ AppFrame

NamingNext ==
  \/ handleTableNamesConfirmed
  \/ handleGenerateAnalysis

SpecNaming == NamingInit /\ [][NamingNext]_vars

\* the name createRegularCrossTab gives the result of a table variable
ResultNameOf(tableVar, bannerVars) == tableVar \o "_by_" \o join(bannerVars, "_")

\* C28: after the names are confirmed in the naming dialog, the analysis
\* started by the delayed callback runs on the configuration holding the
\* confirmed names: every produced result's displayName is the name confirmed
\* for its variable.
C28_ResultsCarryConfirmedNames ==
  pc = "naming_done" =>
    \A k \in 1..Len(results) :
      \E tv \in Range(config.tableVariables) :
        /\ results[k].name = ResultNameOf(tv, config.bannerVariables)
        /\ results[k].displayName = config.tableNames[tv]

(***************************************************************************)
(* App: the wizard steps, MultiSelectDefinition, AdvancedCustomVariables   *)
(* and VariableSelector as far as they set excelData, the groups, the      *)
(* custom variables and the selections of config.  The handlers that set   *)
(* questionTypes, filters and nestedFilters leave these alone.  While the  *)
(* timer of handleTableNamesConfirmed is pending the only operation taken  *)
(* is "Upload Different File".                                             *)
(***************************************************************************)

\* the files uploaded: two surveys with different headers, in neither of
\* which detectMultiSelectQuestions finds a group
WizardDatasets ==
  { Dataset(<<"Brand A", "Region">>, << <<"1", "North">> >>),
    Dataset(<<"Zone">>, << <<"East">> >>) }

\* `custom_${Date.now()}` of the variable added
CustomVariableIds == {"custom_1"}

\* setConfig({ tableVariables: [], ..., nestedFilters: [] })
FreshConfig == NoConfig

\* the steps on which "Upload Different File" is rendered
StepsWithReset == {"multiselect", "questiontypes", "variables", "filters", "naming", "results"}

\* what a handler of the wizard leaves alone besides the state of App
WizardFrame == UNCHANGED pc /\ AppFrame

WizardInit ==
  /\ pc = "wizard"
  /\ EngineIdle
  /\ AppIdle
  /\ CoderIdle /\ TypeIdle /\ GroupsIdle /\ OptionsIdle /\ ExportIdle /\ ClusterIdle

\* the state of MultiSelectDefinition once the step shown is step: mounted on
\* the multiselect step with the groups its effect detects, gone elsewhere
MountGroups(step, excelData) ==
  \E detected \in { IF step = "multiselect"
                    THEN detectMultiSelectQuestions(excelData.headers, excelData.rows)
                    ELSE <<>> } :
    /\ detectedGroups' = detected
    /\ checkedBoxes' = RenderedBoxes(detected, <<>>)

\* a handler that sets currentStep only
GoToStep(from, to) ==
  /\ pc = "wizard"
  /\ ~namingTimer.pending
  /\ currentStep = from
  /\ data # NoData
  /\ currentStep' = to
  /\ MountGroups(to, data)
  /\ UNCHANGED <<data, config, results, threw, showNamingModal, namingTimer, pendingFiles>>
  /\ WizardFrame

\* a handler of a step's component that sets config only
SetConfigOn(step, updated) ==
  /\ pc = "wizard"
  /\ ~namingTimer.pending
  /\ currentStep = step
  /\ data # NoData
  /\ config' = updated
  /\ UNCHANGED <<data, results, threw, currentStep, showNamingModal, namingTimer, pendingFiles>>
  /\ UNCHANGED groupVars
  /\ WizardFrame

handleOnboardingComplete ==
  /\ pc = "wizard"
  /\ currentStep = "onboarding"
  /\ currentStep' = "upload"
  /\ UNCHANGED <<data, config, results, threw, showNamingModal, namingTimer, pendingFiles>>
  /\ UNCHANGED groupVars
  /\ WizardFrame

\* FileUpload on the upload step: handleFileSelect(file) up to
\* await processExcelFile(file)
handleFileSelect_await ==
  /\ pc = "wizard"
  /\ ~namingTimer.pending
  /\ currentStep = "upload"
  /\ \E file \in WizardDatasets \ pendingFiles : pendingFiles' = pendingFiles \cup {file}
  /\ UNCHANGED <<data, config, results, threw, currentStep, showNamingModal, namingTimer>>
  /\ UNCHANGED groupVars
  /\ WizardFrame

\* handleFileSelect after the await: setExcelData, setResults([]), setConfig,
\* setCurrentStep('questionnaire')
handleFileSelect ==
  /\ pc = "wizard"
  /\ ~namingTimer.pending
  /\ \E file \in pendingFiles :
       /\ data' = file
       /\ pendingFiles' = pendingFiles \ {file}
  /\ results' = <<>>
  /\ config' = FreshConfig
  /\ currentStep' = "questionnaire"
  /\ MountGroups("questionnaire", NoData)
  /\ UNCHANGED <<threw, showNamingModal, namingTimer>>
  /\ WizardFrame

handleQuestionnaireStep == GoToStep("questionnaire", "multiselect")

handleContinueToQuestionTypes == GoToStep("multiselect", "questiontypes")

handleContinueToVariables == GoToStep("questiontypes", "variables")

handleContinueToFilters == GoToStep("variables", "filters")

handleBackToVariables == GoToStep("filters", "variables")

\* setCurrentStep(step) with the selections and names cleared
BackClearing(from, to, cleared) ==
  /\ pc = "wizard"
  /\ ~namingTimer.pending
  /\ currentStep = from
  /\ data # NoData
  /\ currentStep' = to
  /\ config' = cleared
  /\ MountGroups(to, data)
  /\ UNCHANGED <<data, results, threw, showNamingModal, namingTimer, pendingFiles>>
  /\ WizardFrame

handleBackToMultiSelect ==
  BackClearing("questiontypes", "multiselect",
               [config EXCEPT !.tableVariables = <<>>, !.bannerVariables = <<>>,
                              !.questionTypes = EmptyMap, !.tableNames = EmptyMap])

handleBackToQuestionTypes ==
  BackClearing("variables", "questiontypes",
               [config EXCEPT !.tableVariables = <<>>, !.bannerVariables = <<>>,
                              !.tableNames = EmptyMap])

resetToUpload ==
  /\ pc = "wizard"
  /\ currentStep \in StepsWithReset
  /\ data # NoData
  /\ currentStep' = "upload"
  /\ data' = NoData
  /\ results' = <<>>
  /\ config' = FreshConfig
  /\ MountGroups("upload", NoData)
  /\ UNCHANGED <<threw, showNamingModal, namingTimer, pendingFiles>>
  /\ WizardFrame

addCustomVariable ==
  \E variableId \in CustomVariableIds :
    SetConfigOn("multiselect",
      [config EXCEPT !.customVariables =
         Put(config.customVariables, variableId,
                 [id |-> variableId, name |-> "Segment", type |-> "grouped_single"])])

removeCustomVariable ==
  \E variableId \in DOMAIN config.customVariables :
    SetConfigOn("multiselect",
      [config EXCEPT !.customVariables = Delete(config.customVariables, variableId)])

\* the orders Object.keys can list the keys of a map in: the insertion order,
\* which the map does not record, so every order is taken
KeyOrders(map) ==
  { keys \in [1..Cardinality(DOMAIN map) -> DOMAIN map] :
      \A i, j \in 1..Cardinality(DOMAIN map) : i # j => keys[i] # keys[j] }

\* Object.keys(multiSelectGroups).find(groupName => ...includes(header)), ""
\* for undefined
GroupOfHeader(groups, keys, header) ==
  IF \E k \in 1..Len(keys) : header \in Range(groups[keys[k]])
  THEN keys[CHOOSE k \in 1..Len(keys) :
              /\ header \in Range(groups[keys[k]])
              /\ \A j \in 1..(k - 1) : header \notin Range(groups[keys[j]])]
  ELSE ""

\* Math.min(...groupColumns.map(col => headers.indexOf(col))), 1-based
FirstColumnIndex(headers, groupColumns) ==
  CHOOSE i \in 1..Len(headers) :
    /\ headers[i] \in Range(groupColumns)
    /\ \A j \in 1..(i - 1) : headers[j] \notin Range(groupColumns)

\* what headers.forEach pushes for the header at index
OrderedEntry(headers, groups, keys, index) ==
  IF GroupOfHeader(groups, keys, headers[index]) = "" THEN <<headers[index]>>
  ELSE IF index = FirstColumnIndex(headers, groups[GroupOfHeader(groups, keys, headers[index])])
       THEN <<GroupOfHeader(groups, keys, headers[index])>>
       ELSE <<>>

\* the names of createOrderedTableVariables()
createOrderedTableVariables(headers, groups, keys, customKeys) ==
  Flatten([i \in 1..Len(headers) |-> OrderedEntry(headers, groups, keys, i)]) \o customKeys

\* the lists of names VariableSelector can render for the table variables
OrderedTableVariables(headers, cfg) ==
  { createOrderedTableVariables(headers, cfg.multiSelectGroups, keys, customKeys) :
      keys \in KeyOrders(cfg.multiSelectGroups), customKeys \in KeyOrders(cfg.customVariables) }

\* every header
availableBannerVariables_allHeaders(headers, groups) == headers

availableBannerVariables(headers, groups) ==
  SelectSeq(headers, LAMBDA header : ~\E g \in DOMAIN groups : header \in Range(groups[g]))

\* checked ? [...selected, variable] : selected.filter(v => v !== variable)
Toggled(selected, variable) ==
  IF variable \in Range(selected) THEN SelectSeq(selected, LAMBDA v : v # variable)
  ELSE Append(selected, variable)

handleTableVariableChange ==
  \E variable \in UNION { Range(all) : all \in OrderedTableVariables(data.headers, config) } :
    SetConfigOn("variables",
      [config EXCEPT !.tableVariables = Toggled(config.tableVariables, variable)])

handleBannerVariableChange ==
  \E variable \in Range(availableBannerVariables(data.headers, config.multiSelectGroups)) :
    SetConfigOn("variables",
      [config EXCEPT !.bannerVariables = Toggled(config.bannerVariables, variable)])

handleSelectAllTable ==
  \E all \in OrderedTableVariables(data.headers, config) :
    SetConfigOn("variables",
      [config EXCEPT !.tableVariables =
         IF Len(config.tableVariables) = Len(all) THEN <<>> ELSE all])

handleSelectAllBanner ==
  \E all \in {availableBannerVariables(data.headers, config.multiSelectGroups)} :
    SetConfigOn("variables",
      [config EXCEPT !.bannerVariables =
         IF Len(config.bannerVariables) = Len(all) THEN <<>> ELSE all])

\* DragDropReorder.moveItem: the items at fromIndex and toIndex swapped
moveItem(items, fromIndex, toIndex) ==
  [k \in 1..Len(items) |->
     IF k = fromIndex THEN items[toIndex]
     ELSE IF k = toIndex THEN items[fromIndex] ELSE items[k]]

\* the arrows of "Reorder Side Breaks", shown for more than one item
onReorderTableVariables ==
  /\ Len(config.tableVariables) > 1
  /\ \E fromIndex \in 1..Len(config.tableVariables), toIndex \in 1..Len(config.tableVariables) :
       /\ toIndex \in {fromIndex - 1, fromIndex + 1}
       /\ SetConfigOn("variables",
            [config EXCEPT !.tableVariables = moveItem(config.tableVariables, fromIndex, toIndex)])

\* the arrows of "Reorder Top Breaks"
onReorderBannerVariables ==
  /\ Len(config.bannerVariables) > 1
  /\ \E fromIndex \in 1..Len(config.bannerVariables), toIndex \in 1..Len(config.bannerVariables) :
       /\ toIndex \in {fromIndex - 1, fromIndex + 1}
       /\ SetConfigOn("variables",
            [config EXCEPT !.bannerVariables = moveItem(config.bannerVariables, fromIndex, toIndex)])

canGenerateAnalysis(d, cfg) ==
  /\ d # NoData
  /\ Len(cfg.bannerVariables) # 0
  /\ \/ \E tv \in Range(cfg.tableVariables) :
          tv \notin DOMAIN cfg.multiSelectGroups /\ tv \notin DOMAIN cfg.customVariables
     \/ \E g \in DOMAIN cfg.multiSelectGroups :
          g \in Range(cfg.tableVariables) /\ Len(cfg.multiSelectGroups[g]) > 0
     \/ \E v \in DOMAIN cfg.customVariables : v \in Range(cfg.tableVariables)

handleProceedToNaming ==
  /\ pc = "wizard"
  /\ ~namingTimer.pending
  /\ currentStep = "filters"
  /\ canGenerateAnalysis(data, config)
  /\ showNamingModal' = TRUE
  /\ UNCHANGED <<data, config, results, threw, currentStep, namingTimer, pendingFiles>>
  /\ UNCHANGED groupVars
  /\ WizardFrame

\* onCancel of the naming dialog
onCancelNaming ==
  /\ pc = "wizard"
  /\ showNamingModal
  /\ showNamingModal' = FALSE
  /\ UNCHANGED <<data, config, results, threw, currentStep, namingTimer, pendingFiles>>
  /\ UNCHANGED groupVars
  /\ WizardFrame

\* Confirm with the suggested names left as they are
ConfirmSuggestedNames ==
  /\ pc = "wizard"
  /\ handleTableNamesConfirmed
  /\ config'.tableNames = SuggestedNames(config)

WizardNext ==
  \/ handleOnboardingComplete
  \/ handleFileSelect_await
  \/ handleFileSelect
  \/ handleQuestionnaireStep
  \/ handleContinueToQuestionTypes
  \/ handleContinueToVariables
  \/ handleContinueToFilters
  \/ handleBackToMultiSelect
  \/ handleBackToQuestionTypes
  \/ handleBackToVariables
  \/ resetToUpload
  \/ addMultiSelectGroup
  \/ removeMultiSelectGroup
  \/ updateGroupName
  \/ updateGroupColumns
  \/ selectAllForGroup
  \/ addCustomVariable
  \/ removeCustomVariable
  \/ handleTableVariableChange
  \/ handleBannerVariableChange
  \/ handleSelectAllTable
  \/ handleSelectAllBanner
  \/ onReorderTableVariables
  \/ onReorderBannerVariables
  \/ handleProceedToNaming
  \/ onCancelNaming
  \/ ConfirmSuggestedNames
  \/ handleGenerateAnalysis

SpecWizard == WizardInit /\ [][WizardNext]_vars

InSomeGroup(cfg, header) ==
  \E g \in DOMAIN cfg.multiSelectGroups : header \in Range(cfg.multiSelectGroups[g])

C30_SelectionsAreValid ==
  /\ \A b \in Range(config.bannerVariables) : ~InSomeGroup(config, b)
  /\ \A tv \in Range(config.tableVariables) :
       \/ tv \in Range(data.headers) /\ ~InSomeGroup(config, tv)
       \/ tv \in DOMAIN config.multiSelectGroups
       \/ tv \in DOMAIN config.customVariables

NoSelections(cfg) == cfg.tableVariables = <<>> /\ cfg.bannerVariables = <<>>

C30_GroupsChangeWithoutSelections ==
  (config'.multiSelectGroups # config.multiSelectGroups
     \/ config'.customVariables # config.customVariables)
    => /\ NoSelections(config')
       /\ NoSelections(config) \/ config' = FreshConfig

====
